---- MODULE Spec2Model ----
(***************************************************************************)
(* Model of the arb bot's round runner, pair processor and trade sizers.   *)
(*                                                                         *)
(*   Spec       processOrders() / processPair() / dryrun() of              *)
(*              src/src/processOrders.js: the pair loop of one round, the  *)
(*              per-pair pipeline, the binary-search sizer in bundle mode  *)
(*              and in the concurrent retries variant, submission, receipt *)
(*   SpecSizer  one run of the binary-search sizer dryrun() of             *)
(*              src/src/processOrders.js over a wider range of balances    *)
(*              and hop counts                                             *)
(*   SpecRP     findOpp() / dryrun() / findMaxInput() of                   *)
(*              src/src/modes/routeProcessor.ts                            *)
(*   SpecIO     findOpp() / dryrun() of src/src/modes/intraOrderbook.js    *)
(*   SpecAll    Spec, SpecRP and SpecIO together                           *)
(*   SpecTx     Spec for small rounds, with fairness of every step but the *)
(*              settling of sendTransaction and of tx.wait()               *)
(*   SpecMain   the round loop of main() of src/cli.js                     *)
(*   SpecMainFair  SpecMain with the event loop making progress            *)
(*   SpecReceipt  processPair of src/src/processOrders.js from the receipt *)
(*              of a mined transaction on                                  *)
(*   SpecSR     dryrun() of src/src/modes/srouter.js in bundle mode and as *)
(*              the three concurrent dryruns of a pair                     *)
(*   SpecGas    the two simulations of a dryrun of processOrders.js,       *)
(*              routeProcessor.ts and intraOrderbook.js, with the numbers  *)
(*              of the gas limit and of the bounty                         *)
(*   SpecRevert handleRevert() / checkGasIssue() of error.ts               *)
(*                                                                         *)
(* Every RPC (vault balance, gas price, eth price, pool fetch, router,     *)
(* estimateGas, sendTransaction, wait) is an input of the environment: its *)
(* result is chosen with \E from the outcomes the code distinguishes.      *)
(***************************************************************************)
EXTENDS Integers, Sequences, FiniteSets, TLC

\* ---------------------------------------------------------------- bounds

\* size of a round (Spec): pairs in the bundle list * config.retries *
\* config.hops stays below it
MaxWork == 5
\* largest vault balance read for a pair (Spec)
MaxVault == 2
\* largest vault balance of a sizer run (SpecSizer)
SizerMaxVault == 16
\* largest config.hops of a sizer run (SpecSizer)
SizerMaxHops == 5

\* decimals of the fixed point of SpecRP, in the place of 18
FixedDecimals == 1
\* largest sum of maxOutput of the take orders, in fixed point (SpecRP)
RPMaxInput == 8
\* largest ratio of a take order, in fixed point (SpecRP)
RPMaxRatio == 11
\* largest amountOutBI of a route (SpecRP)
RPMaxOut == 2
\* largest ratio of an intra-orderbook take order, in halves of ONE (SpecIO)
IOMaxRatio == 2
\* most take orders of the opposing bundle (SpecIO)
IOMaxOrders == 2
\* most rounds main starts; the infinite loop is cut off there (SpecMain)
MaxRounds == 3
\* largest effectiveGasPrice and gasUsed of a receipt (SpecReceipt)
ReceiptMaxGas == 3
\* largest ethPrice, in fixed point, and largest income (SpecReceipt)
ReceiptMaxAmount == 4
\* most hops of the dryruns of srouter.js started for a pair, over all of
\* them: config.hops * the number of dryruns stays within it (SpecSR)
SRMaxHops == 3
\* largest obSellTokenBalance (SpecSR)
SRMaxVault == 8
\* most take orders of a bundled pair (SpecSR)
SRMaxOrders == 2
\* ONE of the fixed point of prices and ratios, in the place of 1e18 (SpecSR)
SRPriceUnit == 50
\* step between the gas estimates, and between the coverages (SpecGas)
GasStep == 50
\* largest gas estimate, in steps (SpecGas)
GasMaxSteps == 3
\* rawtx.gas of a reverted transaction, and its largest gasUsed (SpecRevert)
RevertGas == 50

\* ------------------------------------------------------------- variables

VARIABLES
    config,        \* [bundle, retries, hops, timeout, flashbotRpc,
                   \* gasCoverageZero]
    numPairs,      \* bundledOrders.length
    i,             \* loop variable of processOrders (1-based)
    pc,            \* position of processOrders/processPair
    vaultBalance,  \* vaultBalance of the pair being processed
    sizers,        \* mode -> state of the dryrun() started for the pair
    reports,       \* the reports array of processOrders
    touched,       \* pair -> kinds of calls made while processing it
    roundResult,   \* "running", "undefined", "reports" or "emptyWallet"
    spans,         \* pair -> keys of the spanAttributes processPair has set
    choice,        \* the mode of the dryrun processPair chose, as a set:
                   \* empty while choice is undefined
    pending,       \* pairs whose transaction is in the mempool: submitted,
                   \* neither mined nor dropped
    walletEmptyAt, \* history: first pair one of whose dryruns rejected with
                   \* NoWalletFund, 0 when there is none
    sends,         \* history: one entry per call of sendTransaction, with
                   \* the pair and the signer it was called on
    orderPairObject, \* routeProcessor.ts: the bundled pair findOpp works on
    opp,           \* routeProcessor.ts: state of findOpp and of its dryrun
    dryruns,       \* history: one record per dryrun() findOpp has called
    probed,        \* history: the router calls made and whether each found
                   \* a price that every take order's ratio exceeds by 2%;
                   \* of the calls of findMaxInput, their number, the sizes
                   \* asked for and the sizes whose price met the ratio
    intraPair,     \* intraOrderbook.js: takeOrders[0] of the pair of findOpp
    orderbooksOrders, \* intraOrderbook.js: the opposing bundle, if there is one
    intra,         \* intraOrderbook.js: state of findOpp and of its dryrun
    intraCalls     \* history: the RPC calls of the intra-orderbook findOpp

poVars == <<config, numPairs, i, pc, vaultBalance, sizers, reports, touched,
            roundResult, spans, pending, choice, walletEmptyAt, sends>>

VARIABLES
    \* cli.js, main
    repetitions,   \* -1 for the infinite loop, else the number of rounds
    roundSpans,    \* one entry per round-N span started, in order
    lastError,     \* whether lastError is defined
    mainAt         \* "idle", "loop" or "shutdown"

mainVars == <<repetitions, roundSpans, lastError, mainAt>>

VARIABLES
    \* processOrders.js, processPair from the receipt on
    mined,         \* what the receipt is handled with: the receipt, ethPrice,
                   \* the pair and the results of getIncome and
                   \* getActualClearAmount
    minedResult    \* the result processPair returns or throws, "none" before

rcVars == <<mined, minedResult>>

VARIABLES
    \* srouter.js, srouterClear and dryrun
    srArgs,        \* [bundle, maxProfit, hops, obSellTokenBalance]
    bundledOrder,  \* bundledOrders[i], the object every dryrun is passed
    srOriginal,    \* history: bundledOrders[i] when the dryruns started
    srDryruns      \* mode -> state of the dryrun() started in that mode

srVars == <<srArgs, bundledOrder, srOriginal, srDryruns>>

VARIABLES
    \* the simulations of a dryrun, in numbers
    gasArgs,       \* [gen, coverage, gasPrice, gasLimitMultiplier, txGas]
    gasRun         \* [at, estimates, gasLimit, gasCost, simulated, bounty,
                   \* gas]: simulated is the bounty of the transaction of
                   \* the second simulation, bounty and gas are those of
                   \* the transaction to submit

gsVars == <<gasArgs, gasRun>>

VARIABLES
    \* error.ts, handleRevert
    reverted,      \* [receipt, rawtxGas, signerBalance] handleRevert is
                   \* called with
    revertRun      \* [at, calls, result]: the calls made on viemClient and
                   \* what handleRevert returned, as a set: empty for
                   \* undefined

rvVars == <<reverted, revertRun>>

rpVars == <<orderPairObject, opp, dryruns, probed>>

ioVars == <<intraPair, orderbooksOrders, intra, intraCalls>>

\* the variables a group of actions leaves alone
notPoVars == <<rpVars, ioVars, mainVars, rcVars, srVars, gsVars, rvVars>>

notRpVars == <<poVars, ioVars, mainVars, rcVars, srVars, gsVars, rvVars>>

notIoVars == <<poVars, rpVars, mainVars, rcVars, srVars, gsVars, rvVars>>

notMainVars == <<poVars, rpVars, ioVars, rcVars, srVars, gsVars, rvVars>>

notRcVars == <<poVars, rpVars, ioVars, mainVars, srVars, gsVars, rvVars>>

notSrVars == <<poVars, rpVars, ioVars, mainVars, rcVars, gsVars, rvVars>>

notGsVars == <<poVars, rpVars, ioVars, mainVars, rcVars, srVars, rvVars>>

notRvVars == <<poVars, rpVars, ioVars, mainVars, rcVars, srVars, gsVars>>

\* ------------------------------------------------- processOrders.js: data

\* ProcessPairHaltReason
ProcessPairHaltReason ==
    {"NoWalletFund", "NoRoute", "FailedToGetVaultBalance",
     "FailedToGetGasPrice", "FailedToGetEthPrice", "FailedToGetPools",
     "TxFailed", "TxMineFailed", "UnexpectedError"}

\* ProcessPairReportStatus
ProcessPairReportStatus == {"EmptyVault", "NoOpportunity", "FoundOpportunity"}

\* DryrunHaltReason
DryrunHaltReason == {"NoOpportunity", "NoWalletFund", "NoRoute"}

CallKinds ==
    {"vaultBalance", "gasPrice", "ethPrice", "pools", "route", "blockNumber",
     "estimateGas", "sendTransaction", "sent", "wait", "receipt0",
     "timeout"}

Pow2(n) == 2 ^ n

\* ------------------------------------------- processOrders.js: the sizer

\* the modes of the dryruns processPair starts: 0 in bundle mode, 1..retries
\* otherwise
SizerModes(cfg) == IF cfg.bundle THEN {0} ELSE 1 .. cfg.retries

\* state of dryrun() on entry: j = 1, maximumInput = vaultBalance
NewSizer(balance) ==
    [ j                          |-> 1,
      maximumInput               |-> balance,
      binarySearchLastHopSuccess |-> TRUE,
      noRoute                    |-> TRUE,
      at                         |-> "route",
      reason                     |-> "none",
      value                      |-> 0,
      probes                     |-> << >>,
      sims                       |-> << >> ]

\* maximumInput after hop j: up or down by vaultBalance.div(2 ** j)
NextMaximumInputHalved(maximumInput, balance, j, success) ==
    IF success THEN maximumInput + (balance \div Pow2(j - 1))
               ELSE maximumInput - (balance \div Pow2(j - 1))

NextMaximumInputFixedStep(maximumInput, balance, j, success) ==
    IF success THEN maximumInput + (balance \div 2)
               ELSE maximumInput - (balance \div 2)

NextMaximumInputNextStep(maximumInput, balance, j, success) ==
    IF success THEN maximumInput + (balance \div Pow2(j + 1))
               ELSE maximumInput - (balance \div Pow2(j + 1))

NextMaximumInput(maximumInput, balance, j, success) ==
    IF success THEN maximumInput + (balance \div Pow2(j))
               ELSE maximumInput - (balance \div Pow2(j))

\* a successful hop returns the outcome only at the first and the last hop
HopReturnsAtLast(j, hops) == j = hops

HopReturns(j, hops) == j = 1 \/ j = hops

\* reason of a dryrun() that ran out of hops
SizerFailReasonNoOpp(noRoute) == "NoOpportunity"

SizerFailReason(noRoute) == IF noRoute THEN "NoRoute" ELSE "NoOpportunity"

\* end of the loop body of hop j: the cursor moves and the next hop starts,
\* or the loop is over and dryrun() rejects
EndHop(s, balance, hops, res) ==
    LET success == res = "ok"
        moved == [s EXCEPT
                    !.probes = Append(@, [size |-> s.maximumInput, res |-> res]),
                    !.sims = << >>,
                    !.binarySearchLastHopSuccess = success,
                    !.maximumInput =
                        NextMaximumInput(s.maximumInput, balance, s.j, success)]
    IN  IF s.j = hops
        THEN [moved EXCEPT !.at = "rejected",
                           !.reason = SizerFailReason(moved.noRoute)]
        ELSE [moved EXCEPT !.j = s.j + 1, !.at = "route"]

\* a hop whose simulations all succeeded
SucceedHop(s, balance, hops) ==
    IF HopReturns(s.j, hops)
    THEN [s EXCEPT !.probes = Append(@, [size |-> s.maximumInput, res |-> "ok"]),
                   !.binarySearchLastHopSuccess = TRUE,
                   !.at = "fulfilled",
                   !.value = s.maximumInput]
    ELSE EndHop(s, balance, hops, "ok")

\* estimateGas threw an insufficient-funds error: dryrun() rejects at once
RejectNoWalletFundAsFailedHop(s) ==
    [s EXCEPT !.probes = Append(@, [size |-> s.maximumInput, res |-> "nofund"]),
              !.sims = << >>,
              !.binarySearchLastHopSuccess = FALSE,
              !.at = "rejected",
              !.reason = SizerFailReason(s.noRoute)]

RejectNoWalletFund(s) ==
    [s EXCEPT !.probes = Append(@, [size |-> s.maximumInput, res |-> "nofund"]),
              !.sims = << >>,
              !.at = "rejected",
              !.reason = "NoWalletFund"]

\* a simulation (getBlockNumber, then estimateGas) passed: neither threw
SimulationPassedAlsoRevert(res) == res \in {"ok", "revert"}

SimulationPassed(res) == res = "ok"

\* the simulations made so far in the hop that is running or that fulfilled
\* the dryrun, with their results
Simulate(s, res) == [s EXCEPT !.sims = Append(@, res)]

\* findBestRoute returned a route: noRoute is cleared and the simulation of
\* the hop starts
RouteFoundKeepsNoRoute(s) == [s EXCEPT !.at = "stage1"]

RouteFound(s) == [s EXCEPT !.noRoute = FALSE, !.at = "stage1"]

Settled(s) == s.at \in {"fulfilled", "rejected"}

\* --------------------------------- processOrders.js: choosing the outcome

FulfilledModes(sz) == {m \in DOMAIN sz : sz[m].at = "fulfilled"}

\* the fulfilled dryrun processPair goes on with: the first one, in the
\* order of the modes, that no other exceeds in maximumInput
ChoiceModeLast(sz) ==
    CHOOSE m \in FulfilledModes(sz) :
        \A n \in FulfilledModes(sz) : n <= m

ChoiceMode(sz) ==
    CHOOSE m \in FulfilledModes(sz) :
        \A n \in FulfilledModes(sz) :
            /\ sz[n].value <= sz[m].value
            /\ sz[n].value = sz[m].value => m <= n

\* no dryrun was fulfilled: the reason processPair throws with, taken from
\* the first rejected dryrun whose reason is NoWalletFund or NoRoute, or
\* "none" when processPair returns a NoOpportunity report instead
SizingHaltReason(sz) ==
    LET halting == {m \in DOMAIN sz :
                        sz[m].reason \in {"NoWalletFund", "NoRoute"}}
    IN  IF halting = {} THEN "none"
        ELSE sz[CHOOSE m \in halting : \A n \in halting : m <= n].reason

\* --------------------------------------- processOrders.js: the pair loop

\* the catch block of processOrders ends the round only for this reason
BreaksLoopAlsoNoRoute(reason) == reason \in {"NoWalletFund", "NoRoute"}

BreaksLoop(reason) == reason = "NoWalletFund"

\* the report processOrders pushes for a pair: result.report when
\* processPair returned, {...e.report, error, reason} when it threw
PairReport(p, thrown, reason, status, url, error) ==
    [ pair      |-> p,
      status    |-> status,
      tokenPair |-> status # "undefined",
      txUrl     |-> url,
      error     |-> IF thrown THEN error ELSE "none",
      reason    |-> IF thrown THEN reason ELSE "none" ]

PushReportFront(rs, r) == <<r>> \o rs

PushReport(rs, r) == Append(rs, r)

\* vaultBalance.isZero()
IsEmptyVaultNever(balance) == FALSE

IsEmptyVault(balance) == balance = 0

\* config.timeout ? await promiseTimeout(...) : await ...
UsesPromiseTimeoutNever(c) == FALSE

UsesPromiseTimeout(c) == c.timeout

\* the signer sendTransaction is called on: flashbotSigner !== undefined ?
\* flashbotSigner.sendTransaction(rawtx) : signer.sendTransaction(rawtx),
\* where flashbotSigner is defined when config.flashbotRpc is
SendSignerPublic(c) == "signer"

SendSigner(c) == IF c.flashbotRpc THEN "flashbotSigner" ELSE "signer"

\* the catch block of the submission: details.rawTx is set when the
\* serialized error does not include rawtx.data
RawTxAttributeNever(errorIncludesData) == {}

RawTxAttribute(errorIncludesData) ==
    IF errorIncludesData THEN {} ELSE {"details.rawTx"}

\* how processOrders settles when a pair halted with NoWalletFund: throw
\* "empty wallet" leaves the function without its return statement, and
\* the reports collected in rs with it
AfterNoWalletFundReturnsReports(rs) == "reports"

AfterNoWalletFund(rs) == "emptyWallet"

\* processPair for pair p has returned or thrown: the report is pushed and
\* the loop goes on, ends, or is left by throwing "empty wallet"
EndPair(p, thrown, reason, status, url, error) ==
    /\ reports' = PushReport(reports, PairReport(p, thrown, reason, status, url, error))
    /\ i' = p
    /\ IF thrown /\ BreaksLoop(reason)
       THEN pc' = "done" /\ roundResult' = AfterNoWalletFund(reports')
       ELSE IF p = numPairs
            THEN pc' = "done" /\ roundResult' = "reports"
            ELSE pc' = "loop" /\ roundResult' = roundResult

Touch(p, kinds) == touched' = [touched EXCEPT ![p] = @ \cup kinds]

\* spanAttributes[key] = ... for the keys given
SetSpanAttributes(p, keys) == spans' = [spans EXCEPT ![p] = @ \cup keys]

\* --------------------------------------------- routeProcessor.ts: data

\* RouteProcessorDryrunHaltReason
RouteProcessorDryrunHaltReason == {"NoOpportunity", "NoRoute"}

\* the number of sizes findMaxInput probes: for (let i = 1; i < 26; i++)
FindMaxInputProbes == 25

\* "1" + "0".repeat(n)
Pow10(n) == 10 ^ n

\* "1" + "0".repeat(18), with FixedDecimals in the place of 18
ONE == Pow10(FixedDecimals)

\* scale18(value, decimals) and scale18To(value, decimals) for
\* decimals <= FixedDecimals
scale18(value, decimals) == value * Pow10(FixedDecimals - decimals)

scale18To(value, decimals) == value \div Pow10(FixedDecimals - decimals)

\* dryrun: the amount handed to the router,
\* maximumInputFixed.div("1" + "0".repeat(18 - sellTokenDecimals))
DryrunMaximumInput(maximumInputFixed, order) ==
    maximumInputFixed \div Pow10(FixedDecimals - order.sellTokenDecimals)

\* dryrun: price = rateFixed.mul("1" + "0".repeat(18)).div(maximumInputFixed)
DryrunPrice(amountOut, maximumInputFixed, order) ==
    (amountOut * Pow10(FixedDecimals - order.buyTokenDecimals) * ONE)
        \div maximumInputFixed

\* findMaxInput: price = amountOut.mul("1" + "0".repeat(18)).div(maxInput18)
FindMaxInputPrice(amountOut, maxInput18, order) ==
    (scale18(amountOut, order.buyTokenDecimals) * ONE) \div maxInput18

\* price.lt(ratio)
PriceBelowRatioOrEqual(price, ratio) == price <= ratio

PriceBelowRatioNever(price, ratio) == FALSE

PriceBelowRatio(price, ratio) == price < ratio

\* dryrun: task.evaluable.bytecode of the first simulation: "0x" when
\* config.gasCoveragePercentage === "0", else the bounty check with a zero
\* minimum
TaskBytecodeAlwaysBounty(gasCoverageZero) == "bounty:zero"

TaskBytecode(gasCoverageZero) ==
    IF gasCoverageZero THEN "0x" ELSE "bounty:zero"

\* the answers of Router.findBestRoute for an amount: 0 stands for the
\* status NoWay, any other number for the amountOutBI of a route
RouterAnswers(amount) == 0 .. RPMaxOut

\* findOpp: initAmount, the sum of the maxOutput of the take orders
InitAmount(order) == order.maxOutput

\* findOpp on entry: noRoute = true, hasPriceMatch = {value: true}, and the
\* first dryrun() is called at initAmount
NewFindOpp(order) ==
    [ at                |-> "route",
      call              |-> 1,
      maximumInput      |-> InitAmount(order),
      price             |-> 0,
      noRoute           |-> TRUE,
      hasPriceMatch     |-> TRUE,
      allNoneNodeErrors |-> << >>,
      i                 |-> 0,
      cursor            |-> 0,
      result            |-> << >>,
      reason            |-> "none",
      value             |-> "none" ]

NewDryrun(o) ==
    [ call        |-> o.call,
      supplied    |-> o.call = 1,
      size        |-> o.maximumInput,
      routed      |-> FALSE,
      price       |-> 0,
      estimateGas |-> 0,
      bytecode    |-> "none",
      sims        |-> << >>,
      reason      |-> "pending" ]

\* findOpp after its dryrun()s: the reason it rejects with, and the value
\* (a noneNodeError when more than half of the recorded errors are not node
\* errors)
FindOppReject(o) ==
    LET all  == o.allNoneNodeErrors
        none == {k \in 1 .. Len(all) : all[k]}
    IN  IF o.noRoute
        THEN [o EXCEPT !.at = "rejected", !.reason = "NoRoute"]
        ELSE [o EXCEPT !.at = "rejected", !.reason = "NoOpportunity",
                       !.value = IF Len(all) > 0 /\ 2 * Cardinality(none) > Len(all)
                                 THEN "noneNodeError" ELSE "none"]

\* findMaxInput on entry: initAmount = scale18To(maximumInputFixed,
\* decimals).div(2), maximumInput = initAmount, i = 1
StartFindMaxInput(o, order) ==
    [o EXCEPT !.at = "findMaxInput",
              !.i = 1,
              !.cursor = scale18To(InitAmount(order), order.sellTokenDecimals) \div 2,
              !.result = << >>]

\* if (!hasPriceMatch.value), reached once, after the first dryrun()
TriesSmallerSizeAfterAnyFailure(o) == o.call = 1

TriesSmallerSize(o) == o.call = 1 /\ ~o.hasPriceMatch

\* the catch block of findOpp after dryrun() rejected, and what findOpp does
\* next: findMaxInput after a first dryrun that cleared hasPriceMatch,
\* otherwise the rejection of findOpp
DryrunRejected(o, order, reason, noneNodeError) ==
    LET caught == [o EXCEPT
                      !.noRoute = IF reason # "NoRoute" THEN FALSE ELSE @,
                      !.allNoneNodeErrors = Append(@, noneNodeError)]
    IN  IF TriesSmallerSize(caught)
        THEN StartFindMaxInput(caught, order)
        ELSE FindOppReject(caught)

\* findMaxInput: the step of iteration i, initAmount.div(2 ** i)
FindMaxInputStepSize(order, n) ==
    (scale18To(InitAmount(order), order.sellTokenDecimals) \div 2) \div Pow2(n)

\* findMaxInput has returned: a second dryrun() at maxTradeSize, or the
\* rejection of findOpp when it returned undefined
FindMaxInputReturned(o) ==
    IF o.result # << >>
    THEN [o EXCEPT !.at = "route", !.call = 2, !.maximumInput = o.result[1]]
    ELSE FindOppReject(o)

OrderPairs ==
    [ ratios           : {<<a>> : a \in 0 .. RPMaxRatio}
                            \cup {<<a, b>> : a, b \in 0 .. RPMaxRatio},
      maxOutput        : 1 .. RPMaxInput,
      sellTokenDecimals : 0 .. FixedDecimals,
      buyTokenDecimals  : 0 .. FixedDecimals ]

Configs(maxHops, maxRetries) ==
    [ bundle          : BOOLEAN,
      retries         : 1 .. maxRetries,
      hops            : 1 .. maxHops,
      timeout         : BOOLEAN,
      flashbotRpc     : BOOLEAN,
      gasCoverageZero : BOOLEAN ]

\* processOrders is not running; only config is read
IdlePO ==
    /\ config \in {c \in Configs(1, 1) :
                        ~c.bundle /\ ~c.timeout /\ ~c.flashbotRpc}
    /\ numPairs = 0
    /\ i = 0
    /\ pc = "done"
    /\ vaultBalance = 0
    /\ sizers = << >>
    /\ reports = << >>
    /\ touched = << >>
    /\ spans = << >>
    /\ pending = {}
    /\ choice = {}
    /\ roundResult = "running"
    /\ walletEmptyAt = 0
    /\ sends = << >>

\* no findOpp is running
\* no router call has been made
NoProbes ==
    [calls |-> 0, pricedOut |-> TRUE, findMaxInput |-> 0, sizes |-> {},
     matched |-> {}]

IdleRP ==
    /\ orderPairObject = [ratios |-> << >>, maxOutput |-> 0,
                          sellTokenDecimals |-> 0, buyTokenDecimals |-> 0]
    /\ opp = [at |-> "idle"]
    /\ dryruns = << >>
    /\ probed = NoProbes

\* --------------------------------------------- intraOrderbook.js: data

\* String.prototype.toLowerCase() of an owner address
toLowerCase(owner) == [owner EXCEPT !.upper = FALSE]

\* findOpp: the filter of the opposing take orders: not the same order, not
\* the same owner, and ratio.mul(ratio of takeOrders[0]).div(ONE).lt(ONE)
IsOpposingCaseSensitive(v, a) ==
    /\ v.id # a.id
    /\ v.owner # a.owner
    /\ ((v.ratio * a.ratio) \div ONE) < ONE

IsOpposingAnyRatio(v, a) ==
    /\ v.id # a.id
    /\ toLowerCase(v.owner) # toLowerCase(a.owner)

IsOpposing(v, a) ==
    /\ v.id # a.id
    /\ toLowerCase(v.owner) # toLowerCase(a.owner)
    /\ ((v.ratio * a.ratio) \div ONE) < ONE

\* Array.prototype.filter: the positions, in order, of the take orders of
\* the opposing bundle that pass the filter
RECURSIVE OpposingOrders(_, _, _)
OpposingOrders(takeOrders, a, from) ==
    IF from > Len(takeOrders) THEN << >>
    ELSE (IF IsOpposing(takeOrders[from], a) THEN <<from>> ELSE << >>)
            \o OpposingOrders(takeOrders, a, from + 1)

\* dryrun: the calldata of withdraw2(token, "1", MaxUint256, tasks)
Withdraw2(token, tasks) ==
    [ fn |-> "withdraw2", token |-> token, vaultId |-> 1,
      amount |-> "MaxUint256", tasks |-> tasks ]

\* dryrun: the calldata of clear2(alice order, bob order, clearConfig, [], [])
Clear2(aliceId, bob) ==
    [ fn |-> "clear2", alice |-> aliceId, bob |-> bob,
      aliceBountyVaultId |-> 1, bobBountyVaultId |-> 1 ]

\* dryrun: rawtx = {data: multicall([clear2, withdraw input, withdraw
\* output]), to: orderbook}; tasks are the tasks of the output withdraw
IntraRawtxTasksOnInput(aliceId, bob, tasks) ==
    [ to   |-> "orderbook",
      data |-> << Clear2(aliceId, bob),
                  Withdraw2("buyToken", tasks),
                  Withdraw2("sellToken", << >>) >> ]

IntraRawtx(aliceId, bob, tasks) ==
    [ to   |-> "orderbook",
      data |-> << Clear2(aliceId, bob),
                  Withdraw2("buyToken", << >>),
                  Withdraw2("sellToken", tasks) >> ]

\* the ratios of the intra-orderbook model: multiples of half of ONE
IntraRatios == {(k * ONE) \div 2 : k \in 0 .. IOMaxRatio}

IntraOwners == {[addr |-> 1, upper |-> TRUE], [addr |-> 2, upper |-> FALSE]}

IntraTakeOrders == [id : 1 .. 2, owner : IntraOwners, ratio : IntraRatios]

\* the take orders of the opposing bundle, at most IOMaxOrders of them
RECURSIVE IntraBundles(_)
IntraBundles(n) ==
    IF n = 0 THEN {<< >>}
    ELSE IntraBundles(n - 1)
            \cup {Append(b, v) : b \in {c \in IntraBundles(n - 1) : Len(c) = n - 1},
                                 v \in IntraTakeOrders}

\* no intra-orderbook findOpp is running
IdleIO ==
    /\ intraPair = [id |-> 0]
    /\ orderbooksOrders = [found |-> FALSE, takeOrders |-> << >>]
    /\ intra = [at |-> "idle"]
    /\ intraCalls = [balanceOf |-> 0, blockNumber |-> 0, estimateGas |-> << >>]

\* no receipt is being handled
IdleReceipt ==
    /\ mined = [status |-> -1]
    /\ minedResult = [at |-> "none"]

\* no dryrun is at its simulations
IdleGas ==
    /\ gasArgs = [gen |-> "none"]
    /\ gasRun = [at |-> "idle"]

\* handleRevert is not running
IdleRevert ==
    /\ reverted = [rawtxGas |-> {}]
    /\ revertRun = [at |-> "idle"]

\* srouterClear is not running
IdleSR ==
    /\ srArgs = [hops |-> 0]
    /\ bundledOrder = [takeOrders |-> << >>]
    /\ srOriginal = [takeOrders |-> << >>]
    /\ srDryruns = << >>

\* main is not running
IdleMain ==
    /\ repetitions = -1
    /\ roundSpans = << >>
    /\ lastError = FALSE
    /\ mainAt = "idle"

\* ------------------------------------------------------------------ Init

\* processOrders has bundled the orders and is about to enter the pair loop
Init ==
    /\ config \in Configs(MaxWork - 1, MaxWork - 1)
    /\ numPairs \in 0 .. MaxWork - 3
    /\ numPairs * config.retries * config.hops < MaxWork
    /\ i = 0
    /\ pc = "loop"
    /\ vaultBalance = 0
    /\ sizers = << >>
    /\ reports = << >>
    /\ touched = [p \in 1 .. numPairs |-> {}]
    /\ spans = [p \in 1 .. numPairs |-> {}]
    /\ pending = {}
    /\ choice = {}
    /\ roundResult = "running"
    /\ walletEmptyAt = 0
    /\ sends = << >>
    /\ IdleRP
    /\ IdleIO
    /\ IdleMain
    /\ IdleReceipt
    /\ IdleSR
    /\ IdleGas
    /\ IdleRevert

\* ------------------------------------------------ processOrders: actions

\* if (!bundledOrders.length) return;
ReturnEmpty ==
    /\ pc = "loop" /\ numPairs = 0
    /\ pc' = "done"
    /\ roundResult' = "undefined"
    /\ UNCHANGED <<config, sends, numPairs, i, vaultBalance, sizers, reports, touched, walletEmptyAt, spans, pending, choice>>
    /\ UNCHANGED notPoVars

\* processPair throws something that is not its result object before its
\* first RPC (the Token constructors): processOrders reports UnexpectedError
UnexpectedThrow ==
    /\ pc = "loop" /\ i < numPairs
    /\ EndPair(i + 1, TRUE, "UnexpectedError", "undefined", FALSE, "none")
    /\ vaultBalance' = 0
    /\ sizers' = << >>
    /\ choice' = {}
    /\ UNCHANGED <<config, sends, numPairs, touched, walletEmptyAt, spans, pending>>
    /\ UNCHANGED notPoVars

\* the next iteration of the pair loop calls processPair, which reads the
\* vault balance
GetVaultBalance ==
    /\ pc = "loop" /\ i < numPairs
    /\ sizers' = << >>
    /\ choice' = {}
    /\ Touch(i + 1, {"vaultBalance"})
    /\ \/ /\ EndPair(i + 1, TRUE, "FailedToGetVaultBalance", "undefined", FALSE, "error")
          /\ vaultBalance' = 0
       \/ \E balance \in 0 .. MaxVault :
            IF IsEmptyVault(balance)
            THEN /\ EndPair(i + 1, FALSE, "none", "EmptyVault", FALSE, "none")
                 /\ vaultBalance' = 0
            ELSE /\ vaultBalance' = balance
                 /\ i' = i + 1
                 /\ pc' = "gasPrice"
                 /\ UNCHANGED <<reports, roundResult>>
    /\ UNCHANGED <<config, sends, numPairs, walletEmptyAt, spans, pending>>
    /\ UNCHANGED notPoVars

\* the step of processPair after the gas price: getEthPrice() unless
\* config.gasCoveragePercentage === "0"
AfterGasPriceAlwaysEthPrice(c) == "ethPrice"

AfterGasPrice(c) == IF c.gasCoverageZero THEN "pools" ELSE "ethPrice"

\* signer.provider.getGasPrice()
GetGasPrice ==
    /\ pc = "gasPrice"
    /\ Touch(i, {"gasPrice"})
    /\ \E res \in {"ok", "error"} :
         IF res = "ok"
         THEN /\ pc' = AfterGasPrice(config)
              /\ UNCHANGED <<i, reports, roundResult>>
         ELSE EndPair(i, TRUE, "FailedToGetGasPrice", "undefined", FALSE, "error")
    /\ UNCHANGED <<config, sends, numPairs, vaultBalance, sizers, walletEmptyAt, spans, pending, choice>>
    /\ UNCHANGED notPoVars

\* getEthPrice(), only when config.gasCoveragePercentage !== "0"
GetEthPrice ==
    /\ pc = "ethPrice"
    /\ Touch(i, {"ethPrice"})
    /\ \E res \in {"ok", "empty", "error"} :
         IF res = "ok"
         THEN /\ pc' = "pools"
              /\ UNCHANGED <<i, reports, roundResult>>
         ELSE EndPair(i, TRUE, "FailedToGetEthPrice", "undefined", FALSE,
                      IF res = "error" THEN "error" ELSE "none")
    /\ UNCHANGED <<config, sends, numPairs, vaultBalance, sizers, walletEmptyAt, spans, pending, choice>>
    /\ UNCHANGED notPoVars

\* dataFetcher.fetchPoolsForToken(); on success the dryruns are started
FetchPools ==
    /\ pc = "pools"
    /\ Touch(i, {"pools"})
    /\ \E res \in {"ok", "error"} :
         IF res = "ok"
         THEN /\ pc' = "sizing"
              /\ sizers' = [m \in SizerModes(config) |-> NewSizer(vaultBalance)]
              /\ UNCHANGED <<i, reports, roundResult>>
         ELSE /\ EndPair(i, TRUE, "FailedToGetPools", "undefined", FALSE, "error")
              /\ UNCHANGED sizers
    /\ UNCHANGED <<config, sends, numPairs, vaultBalance, walletEmptyAt, spans, pending, choice>>
    /\ UNCHANGED notPoVars

\* dryrun(), start of hop j: Router.findBestRoute at maximumInput
SizerRoute(m) ==
    /\ pc = "sizing" /\ m \in DOMAIN sizers
    /\ sizers[m].at = "route"
    /\ Touch(i, {"route"})
    /\ \E res \in {"NoWay", "Success"} :
         sizers' = [sizers EXCEPT ![m] =
            IF res = "NoWay"
            THEN EndHop(@, vaultBalance, config.hops, "noway")
            ELSE RouteFound(@)]
    /\ UNCHANGED <<config, sends, numPairs, i, pc, vaultBalance, reports, roundResult, walletEmptyAt, spans, pending, choice>>
    /\ UNCHANGED notPoVars

\* dryrun(), first simulation of hop j: getBlockNumber, then estimateGas of
\* the transaction with a zero minimum bounty
SizerStage1(m) ==
    /\ pc = "sizing" /\ m \in DOMAIN sizers
    /\ sizers[m].at = "stage1"
    /\ \E res \in {"ok", "revert", "nofund", "rpcError"} :
         /\ Touch(i, IF res = "rpcError" THEN {"blockNumber"}
                                         ELSE {"blockNumber", "estimateGas"})
         /\ walletEmptyAt' = IF res = "nofund" /\ walletEmptyAt = 0
                             THEN i ELSE walletEmptyAt
         /\ sizers' = [sizers EXCEPT ![m] =
               CASE res = "nofund" -> RejectNoWalletFund(@)
                 [] SimulationPassed(res) ->
                        IF config.gasCoverageZero
                        THEN SucceedHop(Simulate(@, res), vaultBalance, config.hops)
                        ELSE [Simulate(@, res) EXCEPT !.at = "stage2"]
                 [] OTHER ->
                        EndHop(@, vaultBalance, config.hops, "fail")]
    /\ UNCHANGED <<config, sends, numPairs, i, pc, vaultBalance, reports, roundResult, spans, pending, choice>>
    /\ UNCHANGED notPoVars

\* dryrun(), second simulation of hop j, with the headroom bounty; only when
\* config.gasCoveragePercentage !== "0"
SizerStage2(m) ==
    /\ pc = "sizing" /\ m \in DOMAIN sizers
    /\ sizers[m].at = "stage2"
    /\ \E res \in {"ok", "revert", "nofund", "rpcError"} :
         /\ Touch(i, IF res = "rpcError" THEN {"blockNumber"}
                                         ELSE {"blockNumber", "estimateGas"})
         /\ walletEmptyAt' = IF res = "nofund" /\ walletEmptyAt = 0
                             THEN i ELSE walletEmptyAt
         /\ sizers' = [sizers EXCEPT ![m] =
               CASE res = "nofund" -> RejectNoWalletFund(@)
                 [] SimulationPassed(res) ->
                        SucceedHop(Simulate(@, res), vaultBalance, config.hops)
                 [] OTHER ->
                        EndHop(@, vaultBalance, config.hops, "fail")]
    /\ UNCHANGED <<config, sends, numPairs, i, pc, vaultBalance, reports, roundResult, spans, pending, choice>>
    /\ UNCHANGED notPoVars

\* processPair after the dryrun (bundle mode) or Promise.allSettled (retries)
\* has settled: an opportunity goes on to submission, anything else ends
\* the pair
SettleSizing ==
    /\ pc = "sizing"
    /\ \A m \in DOMAIN sizers : Settled(sizers[m])
    /\ IF FulfilledModes(sizers) # {}
       THEN /\ pc' = "submit"
            /\ choice' = {ChoiceMode(sizers)}
            /\ SetSpanAttributes(i, {"foundOpp"})
            /\ UNCHANGED <<i, reports, roundResult>>
       ELSE /\ UNCHANGED <<spans, choice>>
            /\ IF SizingHaltReason(sizers) # "none"
               THEN EndPair(i, TRUE, SizingHaltReason(sizers), "undefined", FALSE, "none")
               ELSE EndPair(i, FALSE, "none", "NoOpportunity", FALSE, "none")
    /\ UNCHANGED <<config, sends, numPairs, vaultBalance, sizers, touched, walletEmptyAt, pending>>
    /\ UNCHANGED notPoVars

\* getBlockNumber (a failure is only recorded), then sendTransaction settles
SendTransaction ==
    /\ pc = "submit"
    /\ sends' = Append(sends, [pair |-> i, signer |-> SendSigner(config)])
    /\ \E res \in {"ok", "error"} :
         IF res = "ok"
         THEN /\ Touch(i, {"blockNumber", "sendTransaction", "sent"})
              /\ SetSpanAttributes(i, {"details.txUrl", "details.tx"})
              /\ pending' = pending \cup {i}
              /\ pc' = "wait"
              /\ UNCHANGED <<i, reports, roundResult>>
         ELSE /\ Touch(i, {"blockNumber", "sendTransaction"})
              /\ \E errorIncludesData \in BOOLEAN :
                    /\ SetSpanAttributes(i, RawTxAttribute(errorIncludesData))
                    /\ EndPair(i, TRUE, "TxFailed", "FoundOpportunity", FALSE,
                               IF errorIncludesData THEN "errorWithTxData"
                               ELSE "error")
              /\ UNCHANGED pending
    /\ UNCHANGED <<config, numPairs, vaultBalance, sizers, walletEmptyAt, choice>>
    /\ UNCHANGED notPoVars

\* promiseTimeout rejects before sendTransaction has settled; the abandoned
\* sendTransaction is not cancelled and its transaction may still reach the
\* mempool
SubmitTimeout ==
    /\ pc = "submit"
    /\ UsesPromiseTimeout(config)
    /\ sends' = Append(sends, [pair |-> i, signer |-> SendSigner(config)])
    /\ Touch(i, {"blockNumber", "sendTransaction", "timeout"})
    /\ SetSpanAttributes(i, RawTxAttribute(FALSE))
    /\ EndPair(i, TRUE, "TxFailed", "FoundOpportunity", FALSE, "error")
    /\ \E lands \in BOOLEAN :
         pending' = IF lands THEN pending \cup {i} ELSE pending
    /\ UNCHANGED <<config, numPairs, vaultBalance, sizers, walletEmptyAt, choice>>
    /\ UNCHANGED notPoVars

\* tx.wait() settles: the transaction was mined (status 1 or 0), or wait()
\* rejects because it was replaced or dropped
WaitReceipt ==
    /\ pc = "wait"
    /\ \E res \in {"status1", "status0", "error"} :
         /\ Touch(i, IF res = "status0" THEN {"wait", "receipt0"} ELSE {"wait"})
         /\ SetSpanAttributes(i, CASE res = "status1" -> {"didClear"}
                                    [] res = "status0" -> {"details.receipt"}
                                    [] OTHER -> {})
         /\ IF res = "status1"
            THEN EndPair(i, FALSE, "none", "FoundOpportunity", TRUE, "none")
            ELSE EndPair(i, TRUE, "TxMineFailed", "FoundOpportunity", FALSE,
                         IF res = "error" THEN "error" ELSE "none")
    /\ pending' = pending \ {i}
    /\ UNCHANGED <<config, sends, numPairs, vaultBalance, sizers, walletEmptyAt, choice>>
    /\ UNCHANGED notPoVars

\* promiseTimeout rejects before tx.wait() has settled; the transaction
\* stays in the mempool
WaitTimeout ==
    /\ pc = "wait"
    /\ UsesPromiseTimeout(config)
    /\ Touch(i, {"wait", "timeout"})
    /\ EndPair(i, TRUE, "TxMineFailed", "FoundOpportunity", FALSE, "error")
    /\ UNCHANGED <<config, sends, numPairs, vaultBalance, sizers, walletEmptyAt,
                   spans, pending, choice>>
    /\ UNCHANGED notPoVars

\* the chain: a transaction whose promise was abandoned is mined or dropped
TxLeavesMempool ==
    /\ \E p \in pending :
         /\ ~(pc = "wait" /\ p = i)
         /\ pending' = pending \ {p}
    /\ UNCHANGED <<config, sends, numPairs, i, pc, vaultBalance, sizers, reports,
                   touched, roundResult, spans, choice, walletEmptyAt>>
    /\ UNCHANGED notPoVars

SizerStep ==
    \E m \in DOMAIN sizers :
        SizerRoute(m) \/ SizerStage1(m) \/ SizerStage2(m)

Next ==
    \/ ReturnEmpty
    \/ UnexpectedThrow
    \/ GetVaultBalance
    \/ GetGasPrice
    \/ GetEthPrice
    \/ FetchPools
    \/ SizerStep
    \/ SettleSizing
    \/ SendTransaction
    \/ SubmitTimeout
    \/ WaitReceipt
    \/ WaitTimeout
    \/ TxLeavesMempool

vars == <<poVars, rpVars, ioVars, mainVars, rcVars, srVars, gsVars, rvVars>>

Spec == Init /\ [][Next]_vars

\* ---------------------------------------------------------------- SpecTx

\* a round of at most two pairs, one sizer of one hop each
InitTx ==
    /\ Init
    /\ numPairs <= 2
    /\ config.retries = 1 /\ config.hops = 1

\* the steps of the round other than the settling of sendTransaction and
\* of tx.wait(): they are taken whenever the round is at them
ProgramStep ==
    \/ ReturnEmpty
    \/ UnexpectedThrow
    \/ GetVaultBalance
    \/ GetGasPrice
    \/ GetEthPrice
    \/ FetchPools
    \/ SizerStep
    \/ SettleSizing

\* the timer of promiseTimeout fires
TimerStep == SubmitTimeout \/ WaitTimeout

\* sendTransaction and tx.wait() may never settle; everything else does
SpecTx ==
    InitTx /\ [][Next]_vars /\ WF_vars(ProgramStep) /\ WF_vars(TimerStep)

TypeOK ==
    /\ pc \in {"loop", "gasPrice", "ethPrice", "pools", "sizing", "submit",
               "wait", "done"}
    /\ i \in 0 .. numPairs
    /\ roundResult \in {"running", "undefined", "reports", "emptyWallet"}
    /\ \A k \in 1 .. Len(reports) :
         /\ reports[k].status \in ProcessPairReportStatus \cup {"undefined"}
         /\ reports[k].reason \in ProcessPairHaltReason \cup {"none"}
    /\ \A p \in DOMAIN touched : touched[p] \subseteq CallKinds
    /\ \A m \in DOMAIN sizers :
         sizers[m].reason \in DryrunHaltReason \cup {"none"}

\* ------------------------------------------------------------ SpecSizer

\* processPair has fetched the pools of the only pair and starts dryrun()
InitSizer ==
    /\ config \in {c \in Configs(SizerMaxHops, 1) :
                        ~c.timeout /\ ~c.flashbotRpc}
    /\ numPairs = 1
    /\ i = 1
    /\ pc = "sizing"
    /\ vaultBalance \in 1 .. SizerMaxVault
    /\ sizers = [m \in SizerModes(config) |-> NewSizer(vaultBalance)]
    /\ reports = << >>
    /\ touched = [p \in {1} |->
                    IF config.gasCoverageZero
                    THEN {"vaultBalance", "gasPrice", "pools"}
                    ELSE {"vaultBalance", "gasPrice", "ethPrice", "pools"}]
    /\ spans = [p \in {1} |-> {}]
    /\ pending = {}
    /\ choice = {}
    /\ roundResult = "running"
    /\ walletEmptyAt = 0
    /\ sends = << >>
    /\ IdleRP
    /\ IdleIO
    /\ IdleMain
    /\ IdleReceipt
    /\ IdleSR
    /\ IdleGas
    /\ IdleRevert

NextSizer == SizerStep

SpecSizer == InitSizer /\ [][NextSizer]_vars

\* ---------------------------------------------------------------- SpecRP

\* findOpp has been called for a bundled pair; processOrders is not running
InitRP ==
    /\ IdlePO
    /\ IdleIO
    /\ IdleMain
    /\ IdleReceipt
    /\ IdleSR
    /\ IdleGas
    /\ IdleRevert
    /\ orderPairObject \in OrderPairs
    /\ opp = NewFindOpp(orderPairObject)
    /\ dryruns = << >>
    /\ probed = NoProbes

\* the router was asked for an amount: every take order's ratio is more
\* than 2% above the price it found
PricedOut(routed, price) ==
    /\ routed
    /\ \A k \in 1 .. Len(orderPairObject.ratios) :
          orderPairObject.ratios[k] * 100 > price * 102

Probe(routed, price) ==
    probed' = [probed EXCEPT
                  !.calls = @ + 1,
                  !.pricedOut = @ /\ PricedOut(routed, price)]

\* Router.findBestRoute called by findMaxInput for the size maxInput18;
\* matched: it found a route whose price is not below the ratio
FindMaxInputProbe(routed, price, maxInput18, matched) ==
    probed' = [probed EXCEPT
                  !.calls = @ + 1,
                  !.pricedOut = @ /\ PricedOut(routed, price),
                  !.findMaxInput = @ + 1,
                  !.sizes = @ \cup {maxInput18},
                  !.matched = IF matched THEN @ \cup {maxInput18} ELSE @]

\* dryrun() up to its first await: Router.findBestRoute at maximumInput,
\* the price, and the comparison with the ratio of takeOrders[0]
RPDryrunRoute ==
    /\ opp.at = "route"
    /\ \E amountOut \in RouterAnswers(DryrunMaximumInput(opp.maximumInput, orderPairObject)) :
         LET price == DryrunPrice(amountOut, opp.maximumInput, orderPairObject)
             d     == NewDryrun(opp)
         IN  IF amountOut = 0
             THEN /\ opp' = DryrunRejected(opp, orderPairObject, "NoRoute", FALSE)
                  /\ dryruns' = Append(dryruns, [d EXCEPT !.reason = "NoRoute"])
                  /\ Probe(FALSE, 0)
             ELSE /\ Probe(TRUE, price)
                  /\ IF PriceBelowRatio(price, orderPairObject.ratios[1])
                     THEN /\ opp' = DryrunRejected(
                                 [opp EXCEPT !.price = price,
                                             !.hasPriceMatch =
                                                 IF opp.call = 1 THEN FALSE ELSE @],
                                 orderPairObject, "NoOpportunity", FALSE)
                          /\ dryruns' = Append(dryruns,
                                 [d EXCEPT !.routed = TRUE, !.price = price,
                                           !.reason = "NoOpportunity"])
                     ELSE /\ opp' = [opp EXCEPT !.price = price, !.at = "stage1"]
                          /\ dryruns' = Append(dryruns,
                                 [d EXCEPT !.routed = TRUE, !.price = price,
                                           !.bytecode =
                                               TaskBytecode(config.gasCoverageZero)])
    /\ UNCHANGED <<notRpVars, orderPairObject>>

\* the record of the running dryrun after a simulation: estimateGas is not
\* reached when getBlockNumber throws
Simulated(res, reason, bytecode) ==
    [dryruns EXCEPT ![Len(dryruns)] =
        [@ EXCEPT !.estimateGas = IF res = "blockNumberError" THEN @ ELSE @ + 1,
                  !.sims = Append(@, res),
                  !.bytecode = IF bytecode = "same" THEN @ ELSE bytecode,
                  !.reason = reason]]

\* dryrun(), first simulation: getBlockNumber, then estimateGas
RPStage1 ==
    /\ opp.at = "stage1"
    /\ \E res \in {"ok", "estimateGasError", "blockNumberError"} :
       \E isNodeError \in (IF res = "ok" THEN {TRUE} ELSE BOOLEAN) :
         IF res = "ok"
         THEN /\ IF config.gasCoverageZero
                 THEN /\ opp' = [opp EXCEPT !.at = "fulfilled", !.value = "opp"]
                      /\ dryruns' = Simulated(res, "ok", "same")
                 ELSE /\ opp' = [opp EXCEPT !.at = "stage2"]
                      /\ dryruns' = Simulated(res, "pending", "bounty:headroom")
         ELSE /\ opp' = DryrunRejected(opp, orderPairObject, "NoOpportunity",
                                       ~isNodeError)
              /\ dryruns' = Simulated(res, "NoOpportunity", "same")
    /\ UNCHANGED <<notRpVars, orderPairObject, probed>>

\* dryrun(), second simulation with the headroom bounty; only when
\* config.gasCoveragePercentage !== "0"
RPStage2 ==
    /\ opp.at = "stage2"
    /\ \E res \in {"ok", "estimateGasError", "blockNumberError"} :
       \E isNodeError \in (IF res = "ok" THEN {TRUE} ELSE BOOLEAN) :
         IF res = "ok"
         THEN /\ opp' = [opp EXCEPT !.at = "fulfilled", !.value = "opp"]
              /\ dryruns' = Simulated(res, "ok", "bounty:exact")
         ELSE /\ opp' = DryrunRejected(opp, orderPairObject, "NoOpportunity",
                                       ~isNodeError)
              /\ dryruns' = Simulated(res, "NoOpportunity", "same")
    /\ UNCHANGED <<notRpVars, orderPairObject, probed>>

\* findMaxInput, iteration i of its loop; after the last iteration it
\* returns and findOpp goes on.  A route for an amount of 0 makes the price
\* a division by zero, which throws out of findOpp.
RPFindMaxInputStep ==
    /\ opp.at = "findMaxInput"
    /\ opp.i <= FindMaxInputProbes
    /\ \E amountOut \in RouterAnswers(opp.cursor) :
         LET maxInput18 == scale18(opp.cursor, orderPairObject.sellTokenDecimals)
             step       == FindMaxInputStepSize(orderPairObject, opp.i)
             price      == FindMaxInputPrice(amountOut, maxInput18, orderPairObject)
             lower      == [opp EXCEPT !.cursor = @ - step, !.i = @ + 1]
             higher     == [opp EXCEPT !.cursor = @ + step, !.i = @ + 1,
                                       !.result = <<maxInput18>>]
             done(o)    == IF o.i > FindMaxInputProbes
                           THEN FindMaxInputReturned(o) ELSE o
             below      == PriceBelowRatio(price, orderPairObject.ratios[1])
         IN  IF amountOut = 0
             THEN /\ opp' = done(lower)
                  /\ FindMaxInputProbe(FALSE, 0, maxInput18, FALSE)
             ELSE IF maxInput18 = 0
             THEN /\ opp' = [opp EXCEPT !.at = "threw"]
                  /\ FindMaxInputProbe(FALSE, 0, maxInput18, FALSE)
             ELSE /\ opp' = IF below THEN done(lower) ELSE done(higher)
                  /\ FindMaxInputProbe(TRUE, price, maxInput18, ~below)
    /\ UNCHANGED <<notRpVars, orderPairObject, dryruns>>

NextRP ==
    \/ RPDryrunRoute
    \/ RPStage1
    \/ RPStage2
    \/ RPFindMaxInputStep

SpecRP == InitRP /\ [][NextRP]_vars

\* ---------------------------------------------------------------- SpecIO

\* findOpp of intraOrderbook.js has been called for a pair
InitIO ==
    /\ IdlePO
    /\ IdleRP
    /\ IdleMain
    /\ IdleReceipt
    /\ IdleSR
    /\ IdleGas
    /\ IdleRevert
    /\ intraPair \in [id : {1}, owner : [addr : {1}, upper : BOOLEAN],
                      ratio : IntraRatios]
    /\ orderbooksOrders \in [found : BOOLEAN, takeOrders : IntraBundles(IOMaxOrders)]
    /\ orderbooksOrders.found \/ orderbooksOrders.takeOrders = << >>
    /\ intra = [at |-> "start", opposingOrders |-> << >>, k |-> 0,
                rawtx |-> "none", rejections |-> << >>]
    /\ intraCalls = [balanceOf |-> 0, blockNumber |-> 0, estimateGas |-> << >>]

\* findOpp up to its first await: the opposing orders are filtered; with no
\* opposing bundle (opposingOrders is undefined and .length throws) or with
\* none left (throw undefined) findOpp rejects
IOFindOpp ==
    /\ intra.at = "start"
    /\ LET opposing == OpposingOrders(orderbooksOrders.takeOrders, intraPair, 1)
       IN  intra' = IF ~orderbooksOrders.found \/ opposing = << >>
                    THEN [intra EXCEPT !.at = "rejected"]
                    ELSE [intra EXCEPT !.at = "inputBalance",
                                       !.opposingOrders = opposing]
    /\ UNCHANGED <<notIoVars, intraPair, orderbooksOrders, intraCalls>>

\* findOpp: balanceOf of the buy token, then of the sell token; then the
\* first dryrun() is called, which builds its rawtx without tasks
IOBalanceOf ==
    /\ intra.at \in {"inputBalance", "outputBalance"}
    /\ intraCalls' = [intraCalls EXCEPT !.balanceOf = @ + 1]
    /\ \E res \in {"ok", "error"} :
         intra' = IF res = "error" THEN [intra EXCEPT !.at = "rejected"]
                  ELSE IF intra.at = "inputBalance"
                  THEN [intra EXCEPT !.at = "outputBalance"]
                  ELSE [intra EXCEPT !.at = "stage1", !.k = 1,
                           !.rawtx = IntraRawtx(intraPair.id,
                                                intra.opposingOrders[1], << >>)]
    /\ UNCHANGED <<notIoVars, intraPair, orderbooksOrders>>

\* result.reason of the result dryrun() rejects with after a simulation
\* threw: no statement of dryrun() assigns it
IntraRejectReasonNoOpportunity(error) ==
    IF error = "insufficientFunds" THEN "NoWalletFund" ELSE "NoOpportunity"

IntraRejectReason(error) == "undefined"

\* findOpp: for (let i = 0; i < opposingOrders.length; i++), after the
\* dryrun() of candidate o.k rejected
IntraTriesNextNever(o) == FALSE

IntraTriesNext(o) == o.k < Len(o.opposingOrders)

\* dryrun() rejected with its result: findOpp pushes its spanAttributes to
\* allErrorAttributes (the errors of o.rejections) and calls dryrun() for
\* the next opposing order or, after the last one, rejects
IntraDryrunRejected(o, error) ==
    LET rejected == [o EXCEPT !.rejections = Append(@,
                        [ k      |-> o.k,
                          stage  |-> o.at,
                          error  |-> error,
                          value  |-> "undefined",
                          reason |-> IntraRejectReason(error) ])]
    IN  IF IntraTriesNext(o)
        THEN [rejected EXCEPT !.at = "stage1", !.k = o.k + 1,
                       !.rawtx = IntraRawtx(intraPair.id,
                                            o.opposingOrders[o.k + 1], << >>)]
        ELSE [rejected EXCEPT !.at = "rejected", !.rawtx = "none"]

\* the RPC calls of one simulation: estimateGas is not reached when
\* getBlockNumber throws; estimateGas throws for insufficient funds or for
\* another reason
IntraSimulate(res) ==
    intraCalls' = [intraCalls EXCEPT
        !.blockNumber = @ + 1,
        !.estimateGas = IF res = "blockNumberError" THEN @
                        ELSE Append(@, intra.opposingOrders[intra.k])]

\* dryrun(), first simulation: getBlockNumber, then estimateGas of rawtx
IOStage1 ==
    /\ intra.at = "stage1"
    /\ \E res \in {"ok", "estimateGasError", "insufficientFunds",
                   "blockNumberError"} :
         /\ IntraSimulate(res)
         /\ intra' =
              IF res # "ok" THEN IntraDryrunRejected(intra, res)
              ELSE IF config.gasCoverageZero
              THEN [intra EXCEPT !.at = "fulfilled"]
              ELSE [intra EXCEPT !.at = "stage2",
                       !.rawtx = IntraRawtx(intraPair.id,
                                    intra.opposingOrders[intra.k], <<"headroom">>)]
    /\ UNCHANGED <<notIoVars, intraPair, orderbooksOrders>>

\* dryrun(), second simulation with the task of the headroom bounty; on
\* success the task is rebuilt with the exact bounty
IOStage2 ==
    /\ intra.at = "stage2"
    /\ \E res \in {"ok", "estimateGasError", "insufficientFunds",
                   "blockNumberError"} :
         /\ IntraSimulate(res)
         /\ intra' =
              IF res # "ok" THEN IntraDryrunRejected(intra, res)
              ELSE [intra EXCEPT !.at = "fulfilled",
                       !.rawtx = IntraRawtx(intraPair.id,
                                    intra.opposingOrders[intra.k], <<"exact">>)]
    /\ UNCHANGED <<notIoVars, intraPair, orderbooksOrders>>

NextIO ==
    \/ IOFindOpp
    \/ IOBalanceOf
    \/ IOStage1
    \/ IOStage2

SpecIO == InitIO /\ [][NextIO]_vars

\* -------------------------------------------------------------- SpecMain

\* await: the statement after it runs once the awaited promise has settled
AwaitedOrNot(settled) == TRUE

Awaited(settled) == settled

\* the callback of round n has run to its end
RoundEnded(n) == IF n = 0 THEN TRUE ELSE roundSpans[n].at = "ended"

\* main has read its options and is about to enter its loop
InitMain ==
    /\ IdlePO
    /\ IdleRP
    /\ IdleIO
    /\ IdleReceipt
    /\ IdleSR
    /\ IdleGas
    /\ IdleRevert
    /\ repetitions \in -1 .. MaxRounds
    /\ roundSpans = << >>
    /\ lastError = FALSE
    /\ mainAt = "loop"

\* the loop condition holds and tracer.startActiveSpan("round-N", ...)
\* calls the round's callback, up to its await of arbRound
StartRound ==
    /\ mainAt = "loop"
    /\ Awaited(RoundEnded(Len(roundSpans)))
    /\ Len(roundSpans) < (IF repetitions = -1 THEN MaxRounds ELSE repetitions)
    /\ roundSpans' = Append(roundSpans, [at |-> "arbRound", result |-> "none"])
    /\ UNCHANGED <<repetitions, lastError, mainAt>>
    /\ UNCHANGED notMainVars

\* a round callback whose arbRound threw rejects, and main with it
AfterArbRoundRethrows(result) ==
    IF result = "thrown" THEN "rejected" ELSE "sleep"

\* where the round callback goes once arbRound has settled: the try and the
\* catch both fall through to roundSpan.end() and sleep(roundGap)
AfterArbRound(result) == "sleep"

\* arbRound returns or throws; the callback goes on to sleep(roundGap)
ArbRoundSettles ==
    /\ \E n \in DOMAIN roundSpans :
         /\ roundSpans[n].at = "arbRound"
         /\ \E result \in {"returned", "thrown"} :
              /\ roundSpans' = [roundSpans EXCEPT
                                   ![n] = [at |-> AfterArbRound(result),
                                           result |-> result]]
              /\ lastError' = (result = "thrown")
    /\ UNCHANGED <<repetitions, mainAt>>
    /\ UNCHANGED notMainVars

\* sleep(roundGap) has elapsed; the callback goes on to sleep(3000)
RoundGapElapses ==
    /\ \E n \in DOMAIN roundSpans :
         /\ roundSpans[n].at = "sleep"
         /\ roundSpans' = [roundSpans EXCEPT ![n].at = "sleepExport"]
    /\ UNCHANGED <<repetitions, lastError, mainAt>>
    /\ UNCHANGED notMainVars

\* sleep(3000) has elapsed; the callback returns
ExportGapElapses ==
    /\ \E n \in DOMAIN roundSpans :
         /\ roundSpans[n].at = "sleepExport"
         /\ roundSpans' = [roundSpans EXCEPT ![n].at = "ended"]
    /\ UNCHANGED <<repetitions, lastError, mainAt>>
    /\ UNCHANGED notMainVars

\* the for loop is over: exporter.shutdown()
Shutdown ==
    /\ mainAt = "loop"
    /\ repetitions # -1
    /\ Awaited(RoundEnded(Len(roundSpans)))
    /\ Len(roundSpans) >= repetitions
    /\ mainAt' = "shutdown"
    /\ UNCHANGED <<repetitions, roundSpans, lastError>>
    /\ UNCHANGED notMainVars

NextMain ==
    \/ StartRound
    \/ ArbRoundSettles
    \/ RoundGapElapses
    \/ ExportGapElapses
    \/ Shutdown

SpecMain == InitMain /\ [][NextMain]_vars

\* the event loop runs every continuation whose promise has settled and
\* every timer that has elapsed, and arbRound settles
SpecMainFair == SpecMain /\ WF_vars(NextMain)

\* ----------------------------------------------------------- SpecReceipt

\* ethers.utils.parseUnits(ethPrice).mul(actualGasCost).div("1" +
\* "0".repeat(36 - buyTokenDecimals)), with FixedDecimals in the place of 18
ActualGasCostInTokenNoDecimals(ethPriceFixed, actualGasCost, buyTokenDecimals) ==
    (ethPriceFixed * actualGasCost) \div Pow10(2 * FixedDecimals)

ActualGasCostInToken(ethPriceFixed, actualGasCost, buyTokenDecimals) ==
    (ethPriceFixed * actualGasCost)
        \div Pow10(2 * FixedDecimals - buyTokenDecimals)

\* income ? income.sub(actualGasCostInToken) : undefined; income and
\* netProfit are sets, empty for undefined
NetProfit(income, actualGasCostInToken) ==
    {v - actualGasCostInToken : v \in income}

\* tx.wait() has resolved with a receipt for the transaction of a pair
InitReceipt ==
    /\ IdlePO
    /\ IdleRP
    /\ IdleIO
    /\ IdleMain
    /\ IdleSR
    /\ IdleGas
    /\ IdleRevert
    /\ mined \in [ status            : {0, 1},
                    effectiveGasPrice : 1 .. ReceiptMaxGas,
                    gasUsed           : 1 .. ReceiptMaxGas,
                    ethPrice          : 0 .. ReceiptMaxAmount,
                    buyTokenDecimals  : 0 .. FixedDecimals,
                    income            : {{}} \cup {{v} : v \in 0 .. ReceiptMaxAmount},
                    clearActualAmount : 0 .. 1,
                    takeOrders        : {<<[id |-> 1]>>,
                                         <<[id |-> 2], [id |-> 1]>>} ]
    /\ minedResult = [at |-> "none"]

\* processPair from receipt.status === 1 on: the report of a mined
\* transaction, or the rejection with TxMineFailed
HandleReceipt ==
    /\ minedResult.at = "none"
    /\ mined.status \in {0, 1}
    /\ minedResult' =
         IF mined.status = 1
         THEN LET actualGasCost == mined.effectiveGasPrice * mined.gasUsed
                  actualGasCostInToken ==
                      ActualGasCostInToken(mined.ethPrice, actualGasCost,
                                           mined.buyTokenDecimals)
              IN  [ at                   |-> "returned",
                    status               |-> "FoundOpportunity",
                    txUrl                |-> TRUE,
                    clearedAmount        |-> mined.clearActualAmount,
                    actualGasCost        |-> actualGasCost,
                    actualGasCostInToken |-> actualGasCostInToken,
                    income               |-> mined.income,
                    netProfit            |-> NetProfit(mined.income,
                                                       actualGasCostInToken),
                    clearedOrders        |-> [k \in DOMAIN mined.takeOrders |->
                                                mined.takeOrders[k].id] ]
         ELSE [ at |-> "thrown", reason |-> "TxMineFailed",
                status |-> "FoundOpportunity", txUrl |-> FALSE ]
    /\ UNCHANGED mined
    /\ UNCHANGED notRcVars

NextReceipt == HandleReceipt

SpecReceipt == InitReceipt /\ [][NextReceipt]_vars

\* ---------------------------------------------------------------- SpecSR

\* the modes srouterClear starts dryrun() in: mode 0 with config.bundle,
\* else the modes 1, 2 and 3 concurrently over the same bundledOrders[i]
SrModes(bundle) == IF bundle THEN {0} ELSE 1 .. 3

\* market prices findBestRoute's amountOut comes to
SrPrices == {SRPriceUnit, 2 * SRPriceUnit}

\* a take order: its ratio is a set, empty when v.ratio is undefined
SrTakeOrder == [ id    : 1 .. SRMaxOrders,
                 ratio : {{}} \cup {{SRPriceUnit + d} : d \in 0 .. 2}
                              \cup {{2 * SRPriceUnit}} ]

SrTakeOrders(maxLen) ==
    {t \in UNION {[1 .. n -> SrTakeOrder] : n \in 1 .. maxLen} :
        \A k \in DOMAIN t : t[k].id = k}

\* v.ratio !== undefined ? price.mul("102").div("100").gte(v.ratio) : false
PriceMatches(v, price) == \E r \in v.ratio : (price * 102) \div 100 >= r

FilterTakeOrders(takeOrders, price) ==
    SelectSeq(takeOrders, LAMBDA v : PriceMatches(v, price))

\* if (!mode && maxProfit)
FiltersOrdersAnyMode(mode, maxProfit) == maxProfit

FiltersOrders(mode, maxProfit) == mode = 0 /\ maxProfit

\* bundledOrder.takeOrders.length === 0
TakeOrdersEmptyNever(takeOrders) == FALSE

TakeOrdersEmpty(takeOrders) == Len(takeOrders) = 0

NewSrDryrun(balance) ==
    [ j               |-> 1,
      maximumInput    |-> balance,
      succesOrFailure |-> TRUE,
      at              |-> "route",
      log             |-> << >> ]

\* the end of the loop body of hop j, or the continue of the hop that found
\* no take order left: the cursor has moved; the next hop starts, or the
\* loop is over and dryrun() rejects
SrNextHop(s, hops, maximumInput) ==
    IF s.j = hops
    THEN [s EXCEPT !.maximumInput = maximumInput, !.at = "rejected"]
    ELSE [s EXCEPT !.maximumInput = maximumInput, !.j = s.j + 1,
                   !.at = "route"]

SrEndHop(s, hops, balance, success) ==
    SrNextHop([s EXCEPT !.succesOrFailure = success], hops,
              NextMaximumInput(s.maximumInput, balance, s.j, success))

\* what hop j did to the take orders: log entry of the hop
SrHop(s, route, price, before, after) ==
    [ j |-> s.j, size |-> s.maximumInput, route |-> route, price |-> price,
      before |-> before, after |-> after, simulated |-> FALSE ]

\* srouterClear has fetched the pools of a pair and starts its dryruns
InitSR ==
    /\ IdlePO
    /\ IdleRP
    /\ IdleIO
    /\ IdleMain
    /\ IdleReceipt
    /\ IdleGas
    /\ IdleRevert
    /\ srArgs \in [ bundle             : BOOLEAN,
                    maxProfit          : BOOLEAN,
                    hops               : 1 .. SRMaxHops,
                    obSellTokenBalance : SRMaxVault - 1 .. SRMaxVault ]
    /\ srArgs.hops * Cardinality(SrModes(srArgs.bundle)) <= SRMaxHops
    /\ bundledOrder \in
         [ takeOrders : SrTakeOrders(IF srArgs.bundle THEN SRMaxOrders ELSE 1) ]
    /\ srOriginal = bundledOrder
    /\ srDryruns = [m \in SrModes(srArgs.bundle) |->
                        NewSrDryrun(srArgs.obSellTokenBalance)]

\* dryrun() of srouter.js, hop j up to the simulation: findBestRoute at
\* maximumInput, the filter of the take orders by the market price, and the
\* hop skipped when no take order is left
SrFindBestRoute(m) ==
    /\ m \in DOMAIN srDryruns
    /\ srDryruns[m].at = "route"
    /\ \E route \in {"NoWay", "Success"}, price \in SrPrices :
         LET s == srDryruns[m]
             before == bundledOrder.takeOrders
             after == IF FiltersOrders(m, srArgs.maxProfit)
                      THEN FilterTakeOrders(before, price)
                      ELSE before
         IN  IF route = "NoWay"
             THEN /\ price = SRPriceUnit
                  /\ srDryruns' = [srDryruns EXCEPT ![m] =
                        SrEndHop([s EXCEPT !.log =
                                    Append(@, SrHop(s, route, 0, before, before))],
                                 srArgs.hops, srArgs.obSellTokenBalance, FALSE)]
                  /\ UNCHANGED bundledOrder
             ELSE /\ bundledOrder' = [bundledOrder EXCEPT !.takeOrders = after]
                  /\ srDryruns' = [srDryruns EXCEPT ![m] =
                        LET logged == [s EXCEPT !.log =
                                Append(@, SrHop(s, route, price, before, after))]
                        IN  IF TakeOrdersEmpty(after)
                            THEN SrNextHop(logged, srArgs.hops,
                                    NextMaximumInput(s.maximumInput,
                                        srArgs.obSellTokenBalance, s.j, FALSE))
                            ELSE [logged EXCEPT !.at = "simulate"]]
    /\ UNCHANGED <<srArgs, srOriginal>>
    /\ UNCHANGED notSrVars

\* dryrun() of srouter.js, the simulations of hop j (getBlockNumber and
\* estimateGas, once or twice): every one passed, or one threw
SrSimulate(m) ==
    /\ m \in DOMAIN srDryruns
    /\ srDryruns[m].at = "simulate"
    /\ \E success \in BOOLEAN :
         LET s == srDryruns[m]
             logged == [s EXCEPT !.log[Len(s.log)].simulated = TRUE]
         IN  srDryruns' = [srDryruns EXCEPT ![m] =
                IF success /\ HopReturns(s.j, srArgs.hops)
                THEN [logged EXCEPT !.succesOrFailure = TRUE,
                                    !.at = "fulfilled"]
                ELSE SrEndHop(logged, srArgs.hops,
                              srArgs.obSellTokenBalance, success)]
    /\ UNCHANGED <<srArgs, srOriginal, bundledOrder>>
    /\ UNCHANGED notSrVars

NextSR ==
    \/ \E m \in 0 .. 3 : SrFindBestRoute(m)
    \/ \E m \in 0 .. 3 : SrSimulate(m)

SpecSR == InitSR /\ [][NextSR]_vars

\* --------------------------------------------------------------- SpecGas

\* the three dryruns that simulate a transaction once or twice
GasGenerations == {"processOrders", "routeProcessor", "intraOrderbook"}

\* gas estimates estimateGas resolves with
GasEstimates == {k * GasStep : k \in 1 .. GasMaxSteps}

\* config.gasCoveragePercentage, as a number
GasCoverages == {k * GasStep : k \in 0 .. GasMaxSteps - 1}

\* percentage the gas estimate is multiplied by: "103" in processOrders.js,
\* "107" in intraOrderbook.js, config.gasLimitMultiplier in routeProcessor.ts
GasLimitPercentAll103(gen, gasLimitMultiplier) == 103

GasLimitPercent(gen, gasLimitMultiplier) ==
    CASE gen = "processOrders"  -> 103
      [] gen = "intraOrderbook" -> 107
      [] gen = "routeProcessor" -> gasLimitMultiplier

\* gasLimit = estimate.mul(percent).div(100)
GasLimit(gen, estimate, gasLimitMultiplier) ==
    (estimate * GasLimitPercent(gen, gasLimitMultiplier)) \div 100

\* (Number(config.gasCoveragePercentage) * 1.05).toFixed(), 1.03 in
\* routeProcessor.ts: the nearest integer, the larger one of two
Headroom(gen, coverage) ==
    (coverage * (IF gen = "routeProcessor" THEN 103 ELSE 105) + 50) \div 100

\* what the bounty is a percentage of: gasCostInToken in processOrders.js,
\* gasCost in the other two
GasCostBase(gen, gasCost, ethPriceFixed) ==
    IF gen = "processOrders"
    THEN ActualGasCostInToken(ethPriceFixed, gasCost, FixedDecimals)
    ELSE gasCost

\* cost.mul(percent).div("100")
Bounty(cost, percent) == (cost * percent) \div 100

\* a dryrun has built its transaction and is about to simulate it
InitGas ==
    /\ IdlePO
    /\ IdleRP
    /\ IdleIO
    /\ IdleMain
    /\ IdleReceipt
    /\ IdleSR
    /\ IdleRevert
    /\ gasArgs \in [ gen                : GasGenerations,
                     coverage           : GasCoverages,
                     gasPrice           : 1 .. 2,
                     gasLimitMultiplier : {100, 107},
                     txGas              : {{}, {GasStep}} ]
    /\ gasArgs.gen # "routeProcessor"
          => (gasArgs.gasLimitMultiplier = 100 /\ gasArgs.txGas = {})
    /\ gasRun = [ at |-> "stage1", estimates |-> << >>, gasLimit |-> 0,
                  gasCost |-> 0, simulated |-> 0, bounty |-> 0, gas |-> 0 ]

\* ethPrice: "0" in processOrders.js when the coverage is "0", else the
\* price that was fetched, here ONE
GasEthPrice == IF gasArgs.coverage = 0 THEN 0 ELSE ONE

\* rawtx.gas of the transaction that is returned
GasOfRawtx(gasLimit) ==
    IF gasArgs.gen = "routeProcessor" /\ gasArgs.txGas # {}
    THEN CHOOSE g \in gasArgs.txGas : TRUE
    ELSE gasLimit

\* first simulation, with a zero minimum bounty: the gas limit and the gas
\* cost come from its estimate; with a coverage of "0" the dryrun is over
GasStage1 ==
    /\ gasRun.at = "stage1"
    /\ \E threw \in BOOLEAN, estimate \in GasEstimates :
         IF threw
         THEN /\ estimate = GasStep
              /\ gasRun' = [gasRun EXCEPT !.at = "rejected"]
         ELSE LET gasLimit == GasLimit(gasArgs.gen, estimate,
                                       gasArgs.gasLimitMultiplier)
                  gasCost == gasLimit * gasArgs.gasPrice
                  base == GasCostBase(gasArgs.gen, gasCost, GasEthPrice)
                  first == [gasRun EXCEPT !.estimates = Append(@, estimate),
                                          !.gasLimit = gasLimit,
                                          !.gasCost = gasCost]
              IN  gasRun' =
                    IF gasArgs.coverage = 0
                    THEN [first EXCEPT !.at = "fulfilled",
                                       !.gas = GasOfRawtx(gasLimit)]
                    ELSE [first EXCEPT !.at = "stage2",
                             !.simulated = Bounty(base,
                                 Headroom(gasArgs.gen, gasArgs.coverage))]
    /\ UNCHANGED gasArgs
    /\ UNCHANGED notGsVars

\* second simulation, with the headroom bounty; then the bounty of the
\* transaction to submit is set to the exact coverage: of the gas cost of
\* the first estimate in processOrders.js (by processPair, before
\* sendTransaction) and in intraOrderbook.js, of the gas cost of the second
\* estimate in routeProcessor.ts
GasStage2 ==
    /\ gasRun.at = "stage2"
    /\ \E threw \in BOOLEAN, estimate \in GasEstimates :
         IF threw
         THEN /\ estimate = GasStep
              /\ gasRun' = [gasRun EXCEPT !.at = "rejected"]
         ELSE LET second == [gasRun EXCEPT !.estimates = Append(@, estimate),
                                           !.at = "fulfilled"]
              IN  gasRun' =
                    IF gasArgs.gen = "routeProcessor"
                    THEN LET gasLimit == GasLimit(gasArgs.gen, estimate,
                                             gasArgs.gasLimitMultiplier)
                             gasCost == gasLimit * gasArgs.gasPrice
                         IN  [second EXCEPT
                                !.gasLimit = gasLimit,
                                !.gasCost = gasCost,
                                !.bounty = Bounty(gasCost, gasArgs.coverage),
                                !.gas = GasOfRawtx(gasLimit)]
                    ELSE [second EXCEPT
                            !.bounty = Bounty(GasCostBase(gasArgs.gen,
                                                 gasRun.gasCost, GasEthPrice),
                                              gasArgs.coverage),
                            !.gas = gasRun.gasLimit]
    /\ UNCHANGED gasArgs
    /\ UNCHANGED notGsVars

NextGas == GasStage1 \/ GasStage2

SpecGas == InitGas /\ [][NextGas]_vars

\* ------------------------------------------------------------ SpecRevert

\* checkGasIssue: the message of the gas issue of a mined transaction, as a
\* set, empty for undefined; rawtx.gas is a set, empty when it is not a
\* bigint
CheckGasIssueAbove98(receipt, rawtxGas, signerBalance) ==
    IF signerBalance < receipt.effectiveGasPrice * receipt.gasUsed
    THEN {"account ran out of gas for transaction gas cost"}
    ELSE IF \E gas \in rawtxGas : (receipt.gasUsed * 100) \div gas > 98
    THEN {"transaction ran out of specified gas"}
    ELSE {}

CheckGasIssue(receipt, rawtxGas, signerBalance) ==
    IF signerBalance < receipt.effectiveGasPrice * receipt.gasUsed
    THEN {"account ran out of gas for transaction gas cost"}
    ELSE IF \E gas \in rawtxGas : (receipt.gasUsed * 100) \div gas >= 98
    THEN {"transaction ran out of specified gas"}
    ELSE {}

\* the arguments of viemClient.call(), from the transaction getTransaction
\* returned
RevertCallAtLatest(tx) ==
    [ account |-> tx.from, to |-> tx.to, data |-> tx.input, gas |-> tx.gas,
      gasPrice |-> tx.gasPrice, blockNumber |-> {} ]

RevertCall(tx) ==
    [ account |-> tx.from, to |-> tx.to, data |-> tx.input, gas |-> tx.gas,
      gasPrice |-> tx.gasPrice, blockNumber |-> {tx.blockNumber} ]

\* the transaction of the receipt, as getTransaction({ hash }) returns it
MinedTx ==
    [ from |-> "signer", to |-> "arb", input |-> "data",
      gas |-> reverted.rawtxGas, gasPrice |-> reverted.receipt.effectiveGasPrice,
      blockNumber |-> reverted.receipt.blockNumber ]

\* handleRevert is called with the receipt of a transaction mined with
\* status 0
InitRevert ==
    /\ IdlePO
    /\ IdleRP
    /\ IdleIO
    /\ IdleMain
    /\ IdleReceipt
    /\ IdleSR
    /\ IdleGas
    /\ reverted \in [ receipt : [ effectiveGasPrice : 1 .. 2,
                                  gasUsed : RevertGas - 2 .. RevertGas,
                                  blockNumber : 1 .. 2 ],
                      rawtxGas : {{}, {RevertGas}},
                      signerBalance : {0, RevertGas, 2 * RevertGas} ]
    /\ revertRun = [ at |-> "start", calls |-> << >>, result |-> {} ]

\* handleRevert up to its second await: checkGasIssue, then getTransaction
HandleRevertStart ==
    /\ revertRun.at = "start"
    /\ LET gasErr == CheckGasIssue(reverted.receipt, reverted.rawtxGas,
                                   reverted.signerBalance)
       IN  IF gasErr # {}
           THEN revertRun' = [revertRun EXCEPT
                    !.at = "returned",
                    !.result = {[ err |-> gasErr, nodeError |-> FALSE ]}]
           ELSE \E threw \in BOOLEAN, nodeError \in BOOLEAN :
                    revertRun' =
                        IF threw
                        THEN [revertRun EXCEPT
                                !.at = "returned",
                                !.calls = Append(@, [fn |-> "getTransaction"]),
                                !.result = {[ err |-> {"getTransaction"},
                                              nodeError |-> nodeError ]}]
                        ELSE [revertRun EXCEPT
                                !.at = "call",
                                !.calls = Append(@, [fn |-> "getTransaction"])]
    /\ UNCHANGED reverted
    /\ UNCHANGED notRvVars

\* handleRevert: viemClient.call() of the transaction settles; the error it
\* throws is returned with containsNodeError(err), and undefined is
\* returned when it resolves
HandleRevertCall ==
    /\ revertRun.at = "call"
    /\ \E threw \in BOOLEAN, nodeError \in BOOLEAN :
         /\ ~threw => ~nodeError
         /\ revertRun' = [revertRun EXCEPT
                !.at = "returned",
                !.calls = Append(@, [fn |-> "call", args |-> RevertCall(MinedTx)]),
                !.result = IF threw
                           THEN {[ err |-> {"call"}, nodeError |-> nodeError ]}
                           ELSE {}]
    /\ UNCHANGED reverted
    /\ UNCHANGED notRvVars

NextRevert == HandleRevertStart \/ HandleRevertCall

SpecRevert == InitRevert /\ [][NextRevert]_vars

\* --------------------------------------------------------------- SpecAll

\* any one of the three: a round of processOrders, a findOpp of
\* routeProcessor.ts, a findOpp of intraOrderbook.js
InitAll == Init \/ InitRP \/ InitIO

NextAll == Next \/ NextRP \/ NextIO

SpecAll == InitAll /\ [][NextAll]_vars

\* ------------------------------------------------------------ the claims

Running(s) == s.at \in {"route", "stage1", "stage2"}

\* the sizes probed by a dryrun and their outcomes agree with "a dryrun
\* succeeds exactly for sizes <= M"
MonotoneWith(s, M) ==
    \A k \in 1 .. Len(s.probes) :
        (s.probes[k].res = "ok") <=> (s.probes[k].size <= M)

Abs(x) == IF x < 0 THEN -x ELSE x

\* C1 (as claimed): once a dryrun of a pair has rejected with NoWalletFund,
\* nothing is done for any later pair of the bundle list.
C1_NoWalletFundStopsRound ==
    walletEmptyAt # 0 =>
        \A p \in DOMAIN touched : p > walletEmptyAt => touched[p] = {}

\* C2: the round is left by throwing only when the last recorded outcome
\* is NoWalletFund; every other outcome is recorded in reports, one report
\* per finished pair, and the loop is at or past the next pair.
C2_OnlyNoWalletFundBreaksLoop ==
    /\ roundResult = "emptyWallet" =>
          /\ Len(reports) >= 1
          /\ reports[Len(reports)].reason = "NoWalletFund"
    /\ \A k \in 1 .. Len(reports) :
          reports[k].reason # "NoWalletFund" =>
              /\ reports[k].pair = k
              /\ k < numPairs =>
                    i > k \/ (i = k /\ pc = "loop" /\ roundResult = "running")

C2_Witness ==
    /\ Len(reports) = 2
    /\ reports[1].reason = "TxMineFailed"
    /\ reports[2].reason = "UnexpectedError"

\* C3: a round that returns its reports returns one report per pair, the
\* k-th report is the one of pair k, and no call is made for a pair before
\* the reports of all pairs before it exist.
C3_ReportsFollowBundleOrder ==
    /\ roundResult = "reports" =>
          /\ Len(reports) = numPairs
          /\ \A k \in 1 .. numPairs : reports[k].pair = k
    /\ \A p \in DOMAIN touched :
          touched[p] # {} => Len(reports) >= p - 1 /\ i >= p

C3_Witness ==
    /\ roundResult = "reports"
    /\ Len(reports) = 2
    /\ touched[1] # {} /\ touched[2] # {}

\* C4: a pair reported EmptyVault had its vault balance read and nothing
\* else, and a pair for which anything else was done had a balance > 0.
C4_EmptyVaultDoesNothingElse ==
    /\ \A k \in 1 .. Len(reports) :
          reports[k].status = "EmptyVault" =>
              /\ touched[k] = {"vaultBalance"}
              /\ reports[k].reason = "none"
    /\ \A p \in DOMAIN touched :
          (p = i /\ ~(touched[p] \subseteq {"vaultBalance"})) => vaultBalance > 0

C4_Witness ==
    \E k \in 1 .. Len(reports) :
        reports[k].status = "EmptyVault" /\ touched[k] = {"vaultBalance"}

\* C5: a dryrun whose first hop, at the full vault balance, succeeded is
\* fulfilled at hop 1 with maximumInput = vaultBalance and made no other
\* probe.
C5_FullBalanceReturnsAtFirstHop ==
    \A m \in DOMAIN sizers :
        (Len(sizers[m].probes) >= 1 /\ sizers[m].probes[1].res = "ok") =>
            /\ sizers[m].probes[1].size = vaultBalance
            /\ sizers[m].at = "fulfilled"
            /\ sizers[m].value = vaultBalance
            /\ sizers[m].j = 1
            /\ Len(sizers[m].probes) = 1

C5_Witness ==
    \E m \in DOMAIN sizers :
        /\ config.hops > 1
        /\ sizers[m].at = "fulfilled"
        /\ sizers[m].probes = <<[size |-> vaultBalance, res |-> "ok"]>>

\* C6: every size a dryrun probes, and the maximumInput it returns, is
\* greater than 0 and at most vaultBalance.
C6_ProbeWithinBalance ==
    \A m \in DOMAIN sizers :
        /\ \A k \in 1 .. Len(sizers[m].probes) :
              0 < sizers[m].probes[k].size /\ sizers[m].probes[k].size <= vaultBalance
        /\ Running(sizers[m]) =>
              0 < sizers[m].maximumInput /\ sizers[m].maximumInput <= vaultBalance
        /\ sizers[m].at = "fulfilled" =>
              0 < sizers[m].value /\ sizers[m].value <= vaultBalance

C6_Witness ==
    \E m \in DOMAIN sizers :
        /\ Len(sizers[m].probes) >= 3
        /\ sizers[m].probes[2].res = "ok"
        /\ sizers[m].probes[3].res # "ok"
        /\ sizers[m].probes[3].size > sizers[m].probes[2].size

\* C7 (as claimed): with feasibility monotone in the size, the returned
\* maximumInput is within vaultBalance / 2^hops of the true maximum M.
C7_WithinBalanceOverTwoToHops ==
    \A m \in DOMAIN sizers : \A M \in 1 .. vaultBalance :
        (sizers[m].at = "fulfilled" /\ MonotoneWith(sizers[m], M)) =>
            Abs(M - sizers[m].value) * Pow2(config.hops) <= vaultBalance

\* C7 (amended): with feasibility monotone in the size, the returned
\* maximumInput is at most M and less than vaultBalance / 2^(hops-1) plus
\* hops - 2 (the truncation of the integer steps) below it.
StepRounding(hops) == IF hops >= 2 THEN hops - 2 ELSE 0

C7_WithinBalanceOverTwoToHopsLessOne ==
    \A m \in DOMAIN sizers : \A M \in 1 .. vaultBalance :
        (sizers[m].at = "fulfilled" /\ MonotoneWith(sizers[m], M)) =>
            /\ sizers[m].value <= M
            /\ (M - sizers[m].value) * Pow2(config.hops - 1)
                  < vaultBalance + StepRounding(config.hops) * Pow2(config.hops - 1)

C7_Witness ==
    \E m \in DOMAIN sizers : \E M \in 1 .. vaultBalance :
        /\ sizers[m].at = "fulfilled"
        /\ MonotoneWith(sizers[m], M)
        /\ config.hops >= 3
        /\ Len(sizers[m].probes) = config.hops
        /\ sizers[m].value < M

\* C8: when the router answered NoWay to every probe of every dryrun of a
\* pair, no estimateGas, sendTransaction or wait was called for the pair,
\* and once the sizing is over the pair is reported with reason NoRoute.
AllNoWay ==
    /\ DOMAIN sizers # {}
    /\ \A m \in DOMAIN sizers :
          /\ sizers[m].at \in {"route", "rejected"}
          /\ Len(sizers[m].probes) >= 1
          /\ \A k \in 1 .. Len(sizers[m].probes) : sizers[m].probes[k].res = "noway"

C8_NoWayEverywhereIsNoRoute ==
    AllNoWay =>
        /\ touched[i] \cap {"estimateGas", "sendTransaction", "wait"} = {}
        /\ pc # "sizing" =>
              /\ Len(reports) = i
              /\ reports[i].reason = "NoRoute"
              /\ reports[i].pair = i

C8_Witness ==
    /\ AllNoWay
    /\ pc # "sizing"
    /\ ~config.bundle /\ config.retries = 2 /\ config.hops = 2
    /\ reports[i].reason = "NoRoute"

\* C9: a dryrun of findOpp whose market price is lower than the ratio of
\* takeOrders[0] is rejected with NoOpportunity without calling estimateGas
\* and, when hasPriceMatch was handed to it, leaves hasPriceMatch false; and
\* hasPriceMatch is false only after the first dryrun was rejected for such
\* a price.
C9_PriceBelowRatioIsNoOpportunity ==
    /\ \A k \in 1 .. Len(dryruns) :
          (dryruns[k].routed /\ dryruns[k].price < orderPairObject.ratios[1]) =>
              /\ dryruns[k].reason = "NoOpportunity"
              /\ dryruns[k].estimateGas = 0
              /\ dryruns[k].supplied => ~opp.hasPriceMatch
    /\ (opp.at # "idle" /\ ~opp.hasPriceMatch) =>
          /\ Len(dryruns) >= 1
          /\ dryruns[1].supplied
          /\ dryruns[1].routed
          /\ dryruns[1].price < orderPairObject.ratios[1]
          /\ dryruns[1].reason = "NoOpportunity"

C9_Witness ==
    /\ Len(dryruns) = 2
    /\ dryruns[1].routed /\ dryruns[1].price < orderPairObject.ratios[1]
    /\ dryruns[1].reason = "NoOpportunity" /\ dryruns[1].estimateGas = 0
    /\ ~opp.hasPriceMatch
    /\ dryruns[2].reason = "NoOpportunity" /\ dryruns[2].estimateGas = 1

EligibleOpposing(v) ==
    /\ v.id # intraPair.id
    /\ v.owner.addr # intraPair.owner.addr
    /\ v.ratio * intraPair.ratio < ONE * ONE

C11_OnlyEligibleOpposingSimulated ==
    intra.at # "idle" =>
        /\ \A n \in 1 .. Len(intraCalls.estimateGas) :
              EligibleOpposing(orderbooksOrders.takeOrders[intraCalls.estimateGas[n]])
        /\ (\A k \in 1 .. Len(orderbooksOrders.takeOrders) :
                ~EligibleOpposing(orderbooksOrders.takeOrders[k])) =>
              /\ intra.at \in {"start", "rejected"}
              /\ intraCalls.balanceOf = 0
              /\ intraCalls.blockNumber = 0
              /\ intraCalls.estimateGas = << >>

C11_Witness ==
    /\ intra.at = "rejected"
    /\ Len(orderbooksOrders.takeOrders) = 2
    /\ ~intraPair.owner.upper
    /\ orderbooksOrders.takeOrders[1].id = 2
    /\ orderbooksOrders.takeOrders[1].owner = [addr |-> 1, upper |-> TRUE]
    /\ orderbooksOrders.takeOrders[1].ratio * intraPair.ratio < ONE * ONE
    /\ intraCalls.estimateGas = <<2>>

\* C12: with config.gasCoveragePercentage = "0", a fulfilled dryrun of
\* routeProcessor.ts made exactly one estimateGas call and its task bytecode
\* is "0x"; a fulfilled dryrun of intraOrderbook.js made one simulation (as
\* did every dryrun before it) and neither withdraw of its transaction has a
\* task; the dryrun of processOrders.js never enters its second simulation;
\* and no eth price is queried for any pair.
C12_ZeroCoverageSingleSimulation ==
    config.gasCoverageZero =>
        /\ opp.at = "fulfilled" =>
              /\ dryruns[Len(dryruns)].estimateGas = 1
              /\ dryruns[Len(dryruns)].bytecode = "0x"
        /\ opp.at # "stage2"
        /\ intra.at = "fulfilled" =>
              /\ intraCalls.blockNumber = intra.k
              /\ Cardinality({n \in 1 .. Len(intraCalls.estimateGas) :
                    intraCalls.estimateGas[n] = intra.opposingOrders[intra.k]}) = 1
              /\ intra.rawtx.data[2].tasks = << >>
              /\ intra.rawtx.data[3].tasks = << >>
        /\ intra.at # "stage2"
        /\ \A m \in DOMAIN sizers : sizers[m].at # "stage2"
        /\ \A p \in DOMAIN touched : "ethPrice" \notin touched[p]

C12_Witness ==
    /\ config.gasCoverageZero
    /\ opp.at = "fulfilled"
    /\ Len(dryruns) = 2
    /\ dryruns[2].estimateGas = 1
    /\ dryruns[2].bytecode = "0x"

\* C13: a dryrun is in its second simulation only after its first one
\* passed, and is fulfilled only after every simulation it requires passed;
\* sendTransaction is called for a pair only when one of its dryruns is
\* fulfilled, and wait() only after sendTransaction resolved.
RequiredSims == IF config.gasCoverageZero THEN <<"ok">> ELSE <<"ok", "ok">>

C13_SimulateThenSubmitThenWait ==
    /\ \A m \in DOMAIN sizers :
          /\ sizers[m].at = "stage2" => sizers[m].sims = <<"ok">>
          /\ sizers[m].at = "fulfilled" => sizers[m].sims = RequiredSims
    /\ opp.at = "stage2" => dryruns[Len(dryruns)].sims = <<"ok">>
    /\ opp.at = "fulfilled" => dryruns[Len(dryruns)].sims = RequiredSims
    /\ pc \in {"submit", "wait"} => FulfilledModes(sizers) # {}
    /\ \A p \in DOMAIN touched :
          /\ ("sendTransaction" \in touched[p] /\ p = i) =>
                FulfilledModes(sizers) # {}
          /\ "sent" \in touched[p] => "sendTransaction" \in touched[p]
          /\ "wait" \in touched[p] => "sent" \in touched[p]

C13_Witness ==
    /\ ~config.gasCoverageZero /\ ~config.bundle /\ config.retries = 2
    /\ pc = "done"
    /\ Len(reports) = 1
    /\ "wait" \in touched[1]
    /\ sizers[1].at = "rejected"
    /\ sizers[2].at = "fulfilled" /\ sizers[2].sims = <<"ok", "ok">>

\* C14 (as claimed): a pair whose transaction was sent and whose receipt has
\* status 0 is reported with reason TxMineFailed, status FoundOpportunity
\* and the txUrl of the transaction.
C14_MineFailedReportHasTxUrl ==
    \A k \in 1 .. Len(reports) :
        "receipt0" \in touched[k] =>
            /\ reports[k].reason = "TxMineFailed"
            /\ reports[k].status = "FoundOpportunity"
            /\ reports[k].txUrl

\* sendTransaction was called for the pair of report k and rejected
SubmitRejected(k) ==
    "sendTransaction" \in touched[k] /\ "sent" \notin touched[k]

\* C15 (as claimed): when sendTransaction rejects, the pair's outcome has
\* reason TxFailed with the submission error attached, wait() is never
\* started, the report has no txUrl, and the raw transaction is recorded in
\* the span attributes.
C15_TxFailedAlwaysRecordsRawTx ==
    \A k \in 1 .. Len(reports) :
        SubmitRejected(k) =>
            /\ reports[k].reason = "TxFailed"
            /\ reports[k].error # "none"
            /\ "wait" \notin touched[k]
            /\ ~reports[k].txUrl
            /\ "details.rawTx" \in spans[k]

\* C15 (amended): when sendTransaction rejects, the pair's outcome has reason
\* TxFailed with the submission error attached, wait() is never started,
\* neither the report nor the span attributes carry a txUrl, and the raw
\* transaction is recorded in the span attributes exactly when the
\* serialized error does not already include the transaction's data.
C15_TxFailedRecordsRawTxUnlessInError ==
    \A k \in 1 .. Len(reports) :
        SubmitRejected(k) =>
            /\ reports[k].reason = "TxFailed"
            /\ reports[k].error # "none"
            /\ "wait" \notin touched[k]
            /\ ~reports[k].txUrl
            /\ "details.txUrl" \notin spans[k]
            /\ "details.rawTx" \in spans[k] <=>
                    reports[k].error # "errorWithTxData"

C15_Witness ==
    \E k \in 1 .. Len(reports) :
        /\ SubmitRejected(k)
        /\ reports[k].reason = "TxFailed"
        /\ reports[k].error = "error"
        /\ "details.rawTx" \in spans[k]

\* pair p is at its submission or at its receipt wait
Submitting(p) == i = p /\ pc \in {"submit", "wait"}

\* C16 (as claimed): a never-settling sendTransaction or tx.wait() cannot
\* block the round forever: a pair at its submission or receipt wait is
\* eventually reported and the round eventually ends.
C16_SubmitAndWaitNeverBlock ==
    /\ \A p \in 1 .. MaxWork : Submitting(p) ~> Len(reports) >= p
    /\ <>(roundResult # "running")

\* C16 (amended): when config.timeout is set, a pair whose sendTransaction
\* has not settled at the deadline is reported TxFailed, one whose receipt
\* has not arrived at the deadline is reported TxMineFailed, the pair is
\* eventually reported and the round eventually ends.
C16_ConfiguredTimeoutBoundsSubmitAndWait ==
    /\ [](\A k \in 1 .. Len(reports) :
            "timeout" \in touched[k] =>
                /\ reports[k].error = "error"
                /\ reports[k].reason =
                      IF "wait" \in touched[k] THEN "TxMineFailed"
                      ELSE "TxFailed")
    /\ \A p \in 1 .. MaxWork :
          (config.timeout /\ Submitting(p)) ~> Len(reports) >= p
    /\ config.timeout => <>(roundResult # "running")

C16_Witness ==
    /\ config.timeout
    /\ Len(reports) = 2
    /\ "timeout" \in touched[1] /\ "wait" \in touched[1]
    /\ reports[1].reason = "TxMineFailed"
    /\ "timeout" \in touched[2] /\ "wait" \notin touched[2]
    /\ reports[2].reason = "TxFailed"
    /\ roundResult = "reports"

\* C17 (as claimed): at every moment of a round at most one transaction of
\* the wallet is in flight (submitted, neither mined nor dropped), also
\* after an earlier pair's receipt wait was abandoned on timeout.
C17_AtMostOneInFlight == Cardinality(pending) <= 1

\* C18: rounds never overlap: whenever round N+1 has been started, round N
\* has returned or thrown and both of its sleeps have elapsed, in the
\* infinite and in the fixed-repetitions loop.
C18_RoundsNeverOverlap ==
    \A n \in DOMAIN roundSpans :
        n < Len(roundSpans) =>
            /\ roundSpans[n].result \in {"returned", "thrown"}
            /\ roundSpans[n].at = "ended"

C18_Witness ==
    /\ repetitions = -1
    /\ Len(roundSpans) = 3
    /\ roundSpans[1].result = "thrown"
    /\ roundSpans[2].result = "returned"
    /\ roundSpans[3].at = "arbRound"

\* the transaction of a successful intra-orderbook dryrun is addressed to
\* the orderbook and is a multicall of clear2(alice, bob, bounty vaults 1
\* and 1), withdraw2(buyToken, 1, MAX, no tasks) and
\* withdraw2(sellToken, 1, MAX, tasks)
IsIntraMulticall(rawtx, tasks) ==
    /\ rawtx.to = "orderbook"
    /\ Len(rawtx.data) = 3
    /\ rawtx.data[1] = [ fn |-> "clear2", alice |-> intraPair.id,
                         bob |-> intra.opposingOrders[intra.k],
                         aliceBountyVaultId |-> 1, bobBountyVaultId |-> 1 ]
    /\ rawtx.data[2] = [ fn |-> "withdraw2", token |-> "buyToken",
                         vaultId |-> 1, amount |-> "MaxUint256",
                         tasks |-> << >> ]
    /\ rawtx.data[3] = [ fn |-> "withdraw2", token |-> "sellToken",
                         vaultId |-> 1, amount |-> "MaxUint256",
                         tasks |-> tasks ]

\* C19 (as claimed): a successful intra-orderbook dryrun returns the
\* multicall [clear2, withdraw2(buyToken, no tasks), withdraw2(sellToken,
\* [task])]: the sell-token withdraw carries one task.
C19_SellWithdrawAlwaysHasTask ==
    intra.at = "fulfilled" =>
        /\ Len(intra.rawtx.data[3].tasks) = 1
        /\ IsIntraMulticall(intra.rawtx, intra.rawtx.data[3].tasks)

\* C19 (amended): a successful intra-orderbook dryrun returns the multicall
\* [clear2, withdraw2(buyToken, no tasks), withdraw2(sellToken, tasks)]
\* addressed to the orderbook, where tasks is the one task of the exact
\* bounty when gasCoveragePercentage is not "0" and is empty when it is "0".
C19_SellWithdrawHasTaskUnlessZeroCoverage ==
    intra.at = "fulfilled" =>
        IsIntraMulticall(intra.rawtx,
                         IF config.gasCoverageZero THEN << >> ELSE <<"exact">>)

C19_Witness ==
    /\ intra.at = "fulfilled"
    /\ ~config.gasCoverageZero
    /\ intra.k = 2
    /\ intra.rawtx.data[3].tasks = <<"exact">>

\* C20: in the retries variant processPair goes on only when every one of
\* the config.retries dryruns (modes 1..R) has settled, it goes on to the
\* submission if and only if at least one of them is fulfilled, and the
\* outcome it picks is a fulfilled one whose maximumInput is greater than
\* or equal to that of every other fulfilled dryrun.
C20_RetriesPickGreatestMaxInput ==
    (~config.bundle /\ pc # "sizing" /\ DOMAIN sizers # {}) =>
        /\ DOMAIN sizers = 1 .. config.retries
        /\ \A m \in DOMAIN sizers : Settled(sizers[m])
        /\ choice # {} <=> FulfilledModes(sizers) # {}
        /\ choice # {} <=>
              (pc \in {"submit", "wait"} \/ "sendTransaction" \in touched[i])
        /\ \A c \in choice :
              /\ c \in FulfilledModes(sizers)
              /\ \A n \in FulfilledModes(sizers) :
                    sizers[n].value <= sizers[c].value

C20_Witness ==
    /\ ~config.bundle /\ config.retries = 2
    /\ pc = "submit"
    /\ FulfilledModes(sizers) = {1, 2}
    /\ sizers[1].value < sizers[2].value
    /\ choice = {2}

\* C21: a sizer that ends in failure without NoWalletFund has reason NoRoute
\* if and only if every probe it made failed because the router returned
\* NoWay; if at least one probe found a route the reason is NoOpportunity.
C21_NoRouteIffEveryProbeNoWay ==
    /\ \A m \in DOMAIN sizers :
          (sizers[m].at = "rejected" /\ sizers[m].reason # "NoWalletFund") =>
              /\ sizers[m].reason \in {"NoRoute", "NoOpportunity"}
              /\ sizers[m].reason = "NoRoute" <=>
                    \A k \in 1 .. Len(sizers[m].probes) :
                        sizers[m].probes[k].res = "noway"
    /\ opp.at = "rejected" =>
          /\ opp.reason \in {"NoRoute", "NoOpportunity"}
          /\ opp.reason = "NoRoute" <=>
                \A k \in 1 .. Len(dryruns) : ~dryruns[k].routed

C21_Witness ==
    \E m \in DOMAIN sizers :
        /\ sizers[m].at = "rejected"
        /\ sizers[m].reason = "NoOpportunity"
        /\ Len(sizers[m].probes) = 3
        /\ sizers[m].probes[1].res = "noway"
        /\ sizers[m].probes[2].res = "fail"
        /\ sizers[m].probes[3].res = "noway"

\* C22 (as claimed): every report of the round has a status among
\* EmptyVault, NoOpportunity and FoundOpportunity and carries tokenPair,
\* buyToken and sellToken, whatever the outcome of its pair.
C22_EveryReportHasStatusAndTokens ==
    \A k \in 1 .. Len(reports) :
        /\ reports[k].status \in ProcessPairReportStatus
        /\ reports[k].tokenPair

CursorMovedBy(s, k, step) ==
    s.probes[k + 1].size =
        IF s.probes[k].res = "ok" THEN s.probes[k].size + step
                                  ELSE s.probes[k].size - step

\* C24 (as claimed): after a hop j < H that does not return, the cursor
\* moves by step_{j+1} = vaultBalance / 2^(j+1), up after a successful hop
\* and down after a failed one.
C24_CursorMovesByStepAfterNext ==
    \A m \in DOMAIN sizers :
        \A k \in 1 .. Len(sizers[m].probes) - 1 :
            CursorMovedBy(sizers[m], k, vaultBalance \div Pow2(k + 1))

\* C24 (amended): after a hop j < H that does not return, the cursor moves
\* by step_j = vaultBalance / 2^j rounded down, up after a successful hop
\* (1 < j < H) and down after a hop that failed.
C24_CursorMovesByStepOfHop ==
    \A m \in DOMAIN sizers :
        /\ \A k \in 1 .. Len(sizers[m].probes) - 1 :
              /\ CursorMovedBy(sizers[m], k, vaultBalance \div Pow2(k))
              /\ sizers[m].probes[k].res = "ok" => 1 < k /\ k < config.hops
        /\ sizers[m].at \in {"route", "stage1", "stage2"} =>
              /\ Len(sizers[m].probes) = sizers[m].j - 1
              /\ sizers[m].j > 1 =>
                    sizers[m].maximumInput =
                        IF sizers[m].probes[sizers[m].j - 1].res = "ok"
                        THEN sizers[m].probes[sizers[m].j - 1].size
                                + vaultBalance \div Pow2(sizers[m].j - 1)
                        ELSE sizers[m].probes[sizers[m].j - 1].size
                                - vaultBalance \div Pow2(sizers[m].j - 1)

C24_Witness ==
    \E m \in DOMAIN sizers :
        /\ vaultBalance = 16
        /\ Len(sizers[m].probes) >= 3
        /\ sizers[m].probes[1] = [size |-> 16, res |-> "noway"]
        /\ sizers[m].probes[2] = [size |-> 8, res |-> "ok"]
        /\ sizers[m].probes[3].size = 12

\* C25 (as stated): a sizer run in which at least one hop succeeded never
\* ends in failure: a dryrun rejected with NoRoute or NoOpportunity has no
\* successful probe
C25_SuccessfulHopNeverEndsInFailure ==
    \A m \in DOMAIN sizers :
        (sizers[m].at = "rejected"
            /\ sizers[m].reason \in {"NoRoute", "NoOpportunity"})
        => \A k \in 1 .. Len(sizers[m].probes) :
                sizers[m].probes[k].res # "ok"

\* C26: a simulation of hop j that fails for insufficient funds rejects the
\* dryrun at once with NoWalletFund: the probe of hop j is the last one, hop
\* j stays the current hop and the cursor stays at the size of that probe;
\* a simulation that fails for any other reason is a failed hop after which
\* the next hop starts, and NoWalletFund is the reason of no other dryrun
C26_NoWalletFundRejectsAtOnce ==
    \A m \in DOMAIN sizers :
        LET s == sizers[m]
            n == Len(s.probes)
        IN  /\ \A k \in 1 .. n :
                  s.probes[k].res = "nofund"
                  => /\ k = n
                     /\ s.at = "rejected"
                     /\ s.reason = "NoWalletFund"
                     /\ s.j = k
                     /\ s.maximumInput = s.probes[k].size
            /\ \A k \in 1 .. n :
                  (s.probes[k].res = "fail" /\ k < config.hops)
                  => /\ s.j > k
                     /\ (k = n => s.at # "rejected")
            /\ s.reason = "NoWalletFund"
                  => (n > 0 /\ s.probes[n].res = "nofund")

\* hop 1 failed its simulation for another reason, hop 2 ran and its
\* simulation failed for insufficient funds before the last hop
C26_Witness ==
    \E m \in DOMAIN sizers :
        /\ config.hops > 2
        /\ Len(sizers[m].probes) = 2
        /\ sizers[m].probes[1].res = "fail"
        /\ sizers[m].probes[2].res = "nofund"
        /\ sizers[m].probes[2].size < sizers[m].probes[1].size
        /\ sizers[m].reason = "NoWalletFund"

\* the take orders of a sequence
SrOrders(takeOrders) == {takeOrders[k] : k \in DOMAIN takeOrders}

\* C27 (as stated): in a bundle-mode dryrun with maxProfit the take orders
\* are filtered only at the first hop: every later hop leaves
\* bundledOrder.takeOrders as it found it
C27_FilteredOnlyAtFirstHop ==
    (srArgs.hops > 0 /\ srArgs.bundle /\ srArgs.maxProfit)
    => \A m \in DOMAIN srDryruns :
          \A k \in 1 .. Len(srDryruns[m].log) :
              srDryruns[m].log[k].j > 1
              => srDryruns[m].log[k].after = srDryruns[m].log[k].before

\* C28: bundledOrder.takeOrders only ever shrinks during a dryrun: what a
\* hop leaves is part of what it found, what a later hop leaves is part of
\* what an earlier hop left, and the pair holds no order the last hop did
\* not leave; once a hop leaves no take order, that hop and every later one
\* make no simulation and the dryrun is not fulfilled
C28_TakeOrdersOnlyShrink ==
    \A m \in DOMAIN srDryruns :
        LET s == srDryruns[m]
            n == Len(s.log)
        IN  /\ \A k \in 1 .. n :
                  /\ SrOrders(s.log[k].after) \subseteq SrOrders(s.log[k].before)
                  /\ Len(s.log[k].after) <= Len(s.log[k].before)
                  /\ \A l \in k .. n :
                        SrOrders(s.log[l].after) \subseteq SrOrders(s.log[k].after)
                  /\ SrOrders(bundledOrder.takeOrders)
                        \subseteq SrOrders(s.log[k].after)
            /\ \A k \in 1 .. n :
                  s.log[k].after = << >>
                  => /\ \A l \in k .. n : ~s.log[l].simulated
                     /\ s.at \in {"route", "rejected"}

\* a bundle-mode dryrun whose first hop dropped an order and kept another,
\* whose second hop dropped the last one, and whose third hop found a price
\* that matches an order dropped before: it made no simulation
C28_Witness ==
    /\ srArgs.hops = 3 /\ srArgs.bundle /\ srArgs.maxProfit
    /\ LET s == srDryruns[0]
       IN  /\ Len(s.log) = 3
           /\ Len(s.log[1].after) = 1
           /\ Len(s.log[1].before) = 2
           /\ s.log[1].simulated
           /\ s.log[2].route = "Success"
           /\ s.log[2].before = s.log[1].after
           /\ s.log[2].after = << >>
           /\ s.log[3].route = "Success"
           /\ PriceMatches(s.log[1].after[1], s.log[3].price)
           /\ s.log[3].size < s.log[1].size
           /\ ~s.log[3].simulated
           /\ s.at = "rejected"
           /\ bundledOrder.takeOrders = << >>

\* C29: the dryruns of modes 1, 2 and 3 of a pair never modify the pair
\* they share: bundledOrders[i] stays what it was when they started, and
\* every hop of every one of them finds and leaves those take orders,
\* whatever the other dryruns have done in the meantime
C29_RetriesNeverModifyThePair ==
    (srArgs.hops > 0 /\ ~srArgs.bundle)
    => /\ bundledOrder = srOriginal
       /\ \A m \in DOMAIN srDryruns :
             \A k \in 1 .. Len(srDryruns[m].log) :
                /\ srDryruns[m].log[k].before = srOriginal.takeOrders
                /\ srDryruns[m].log[k].after = srOriginal.takeOrders

\* with maxProfit, the three dryruns have each found a route at a price the
\* take order does not match, interleaved: mode 2 has settled while mode 1
\* is at its simulation
C29_Witness ==
    /\ srArgs.hops > 0 /\ ~srArgs.bundle /\ srArgs.maxProfit
    /\ \A m \in 1 .. 3 :
          /\ Len(srDryruns[m].log) >= 1
          /\ srDryruns[m].log[1].route = "Success"
          /\ ~PriceMatches(srOriginal.takeOrders[1], srDryruns[m].log[1].price)
    /\ srDryruns[1].at = "simulate"
    /\ srDryruns[2].at = "fulfilled"
    /\ srDryruns[3].at = "rejected"

IntraAttempted == IF intra.at \in {"idle", "start", "inputBalance", "outputBalance"}
                  THEN 0 ELSE intra.k

\* C31: findOpp reads the two balances once, before the first dryrun, and
\* tries the opposing orders one at a time in list order: candidate n is
\* simulated only after the candidates before it have each rejected, the
\* candidate findOpp returns with is the first that did not reject and no
\* later one is simulated, and when findOpp rejects after its dryruns the
\* errors collected are one per candidate, in the order of the candidates
C31_CandidatesTriedInOrderUntilFirstSuccess ==
    intra.at # "idle" =>
    /\ intraCalls.balanceOf <= 2
    /\ IntraAttempted > 0 => intraCalls.balanceOf = 2
    /\ \A n \in 1 .. Len(intra.rejections) : intra.rejections[n].k = n
    /\ \A n \in 1 .. Len(intraCalls.estimateGas) :
          /\ \E c \in 1 .. IntraAttempted :
                intraCalls.estimateGas[n] = intra.opposingOrders[c]
          /\ n > 1 => intraCalls.estimateGas[n - 1] <= intraCalls.estimateGas[n]
    /\ intra.at \in {"stage1", "stage2", "fulfilled"}
          => Len(intra.rejections) = intra.k - 1
    /\ (intra.at = "rejected" /\ IntraAttempted > 0)
          => /\ Len(intra.rejections) = Len(intra.opposingOrders)
             /\ intra.k = Len(intra.opposingOrders)

\* two candidates were simulated in turn, both rejected, and findOpp
\* rejected with two errors
C31_Witness ==
    /\ intra.at = "rejected"
    /\ Len(intra.opposingOrders) = 2
    /\ Len(intra.rejections) = 2
    /\ Len(intraCalls.estimateGas) >= 2

\* C32: in a successful intra-orderbook dryrun the gas limit of the
\* transaction is floor(estimate * 107 / 100) of the first estimate, and
\* with a coverage the bounty of the final task is floor(gasLimit * gasPrice
\* * coverage / 100) of that gas limit, whatever the second estimate was
C32_IntraGasLimitAndBountyFromFirstEstimate ==
    (gasArgs.gen = "intraOrderbook" /\ gasRun.at = "fulfilled")
    => /\ gasRun.gas = (gasRun.estimates[1] * 107) \div 100
       /\ gasArgs.coverage # 0
            => /\ Len(gasRun.estimates) = 2
               /\ gasRun.bounty =
                    (gasRun.gas * gasArgs.gasPrice * gasArgs.coverage) \div 100

\* a successful intra-orderbook dryrun with a coverage whose second
\* estimate is larger than the first, and whose gas limit is rounded down
C32_Witness ==
    /\ gasArgs.gen = "intraOrderbook"
    /\ gasRun.at = "fulfilled"
    /\ gasArgs.coverage # 0
    /\ gasRun.estimates[2] > gasRun.estimates[1]
    /\ (gasRun.estimates[1] * 107) % 100 # 0
    /\ gasRun.bounty > 0

\* the calls processPair makes after it has fetched the pools
AfterPoolsKinds ==
    {"route", "blockNumber", "estimateGas", "sendTransaction", "sent", "wait",
     "receipt0", "timeout"}

\* the calls made for a pair that halted with the reason given
HaltedAfter(reason, gasCoverageZero) ==
    CASE reason = "FailedToGetVaultBalance" -> {"vaultBalance"}
      [] reason = "FailedToGetGasPrice" -> {"vaultBalance", "gasPrice"}
      [] reason = "FailedToGetEthPrice" -> {"vaultBalance", "gasPrice", "ethPrice"}
      [] reason = "FailedToGetPools" ->
            IF gasCoverageZero THEN {"vaultBalance", "gasPrice", "pools"}
            ELSE {"vaultBalance", "gasPrice", "ethPrice", "pools"}

\* C33: processPair reads the vault balance, then the gas price, then the
\* eth price (only with a gas coverage other than "0"), then the pools, and
\* only then sizes, simulates and submits; a pair that halted with
\* FailedToGetVaultBalance, FailedToGetGasPrice, FailedToGetEthPrice or
\* FailedToGetPools made the calls up to the failed one and no other
C33_InputsInOrderAndHaltAtFailure ==
    /\ \A p \in DOMAIN touched :
          /\ "gasPrice" \in touched[p] => "vaultBalance" \in touched[p]
          /\ "ethPrice" \in touched[p]
                => ("gasPrice" \in touched[p] /\ ~config.gasCoverageZero)
          /\ "pools" \in touched[p]
                => /\ "gasPrice" \in touched[p]
                   /\ config.gasCoverageZero \/ "ethPrice" \in touched[p]
          /\ touched[p] \cap AfterPoolsKinds # {} => "pools" \in touched[p]
    /\ \A n \in 1 .. Len(reports) :
          reports[n].reason \in {"FailedToGetVaultBalance", "FailedToGetGasPrice",
                                 "FailedToGetEthPrice", "FailedToGetPools"}
          => touched[reports[n].pair] =
                HaltedAfter(reports[n].reason, config.gasCoverageZero)

\* a round in which one pair halted at the eth price and a later one at the
\* pools
C33_Witness ==
    \E m, n \in 1 .. Len(reports) :
        /\ m < n
        /\ reports[m].reason = "FailedToGetEthPrice"
        /\ reports[n].reason = "FailedToGetPools"
        /\ "ethPrice" \in touched[reports[n].pair]

\* the calls of sendTransaction made for pair p
SendsOf(p) == {n \in 1 .. Len(sends) : sends[n].pair = p}

RevertGasProblem ==
    \/ reverted.signerBalance <
          reverted.receipt.effectiveGasPrice * reverted.receipt.gasUsed
    \/ \E gas \in reverted.rawtxGas : reverted.receipt.gasUsed * 100 >= 98 * gas

\* C35: handleRevert, once it has returned: with a gas problem it made no
\* call and returned a non-node error; otherwise it fetched the transaction
\* and, unless that failed, called it again with the same from, to, data,
\* gas and gasPrice at the block of the receipt, and returned the error of
\* that call with its node/non-node class, or undefined when the call
\* succeeded
C35_RevertResimulatedUnlessGasProblem ==
    revertRun.at = "returned" =>
    IF RevertGasProblem
    THEN /\ revertRun.calls = << >>
         /\ revertRun.result # {}
         /\ \A r \in revertRun.result :
                /\ r.nodeError = FALSE
                /\ r.err # {}
                /\ r.err \subseteq
                      {"account ran out of gas for transaction gas cost",
                       "transaction ran out of specified gas"}
    ELSE /\ Len(revertRun.calls) >= 1
         /\ revertRun.calls[1].fn = "getTransaction"
         /\ Len(revertRun.calls) = 1
                => (revertRun.result # {}
                    /\ \A r \in revertRun.result : r.err = {"getTransaction"})
         /\ Len(revertRun.calls) = 2 =>
              /\ revertRun.calls[2].fn = "call"
              /\ revertRun.calls[2].args =
                    [ account |-> "signer", to |-> "arb", data |-> "data",
                      gas |-> reverted.rawtxGas,
                      gasPrice |-> reverted.receipt.effectiveGasPrice,
                      blockNumber |-> {reverted.receipt.blockNumber} ]
              /\ \A r \in revertRun.result :
                    r.err = {"call"} /\ r.nodeError \in BOOLEAN

\* gasUsed is exactly 98% of rawtx.gas and the balance covers the cost:
\* handleRevert returned the gas error without a call
C35_Witness ==
    /\ revertRun.at = "returned"
    /\ \E gas \in reverted.rawtxGas : reverted.receipt.gasUsed * 100 = 98 * gas
    /\ reverted.signerBalance >=
          reverted.receipt.effectiveGasPrice * reverted.receipt.gasUsed
    /\ revertRun.calls = << >>

\* every round main has started so far has ended
AllRoundsEnded ==
    \A n \in DOMAIN roundSpans : roundSpans[n].at = "ended"

\* C36: a round that ends in an error never stops the runner: with
\* repetitions = n >= 0 no more than n rounds are ever started, the runner
\* reaches exporter.shutdown() whatever the rounds' outcomes, and it does so
\* after exactly n rounds, all of them ended; with repetitions unset (-1) the
\* runner never leaves the loop and starts every round up to the cut-off;
\* each round is started as a fresh call of arbRound.
C36_ErrorRoundsNeverStopTheRunner ==
    /\ [](repetitions >= 0 => Len(roundSpans) <= repetitions)
    /\ [](mainAt = "shutdown" =>
            /\ repetitions >= 0
            /\ Len(roundSpans) = repetitions
            /\ AllRoundsEnded)
    /\ (repetitions >= 0) ~> (mainAt = "shutdown")
    /\ [](repetitions = -1 => mainAt = "loop")
    /\ (repetitions = -1) ~> (Len(roundSpans) = MaxRounds /\ AllRoundsEnded)
    /\ [][Len(roundSpans') = Len(roundSpans) + 1 =>
            roundSpans'[Len(roundSpans')] =
                [at |-> "arbRound", result |-> "none"]]_vars

C36_Witness ==
    /\ repetitions = 2
    /\ mainAt = "shutdown"
    /\ Len(roundSpans) = 2
    /\ roundSpans[1].result = "thrown"
    /\ roundSpans[2].result = "thrown"

\* C37 (as claimed): in every successful dryrun with a gas coverage other
\* than 0, the minimum bounty of the returned transaction is at most the
\* bounty that the second simulation verified, whatever the second estimate.
C37_ReturnedBountyAtMostSimulated ==
    (gasRun.at = "fulfilled" /\ gasArgs.coverage # 0)
    => gasRun.bounty <= gasRun.simulated

\* the largest number of a non-empty set of numbers
Largest(S) == CHOOSE x \in S : \A y \in S : y <= x

\* findMaxInput has run its loop to the end and returned
FindMaxInputHasReturned == opp.i = FindMaxInputProbes + 1

\* C38 (as claimed): given a positive maximumInput, every size findMaxInput
\* probes is greater than 0 and strictly less than maximumInput; it makes
\* exactly 25 probes and returns undefined when no probe had a route with a
\* price of at least the ratio of takeOrders[0], else the largest of the
\* sizes probed that had one.
C38_FindMaxInputProbesPositiveSizes ==
    /\ \A size \in probed.sizes :
          size > 0 /\ size < InitAmount(orderPairObject)
    /\ FindMaxInputHasReturned
          => /\ probed.findMaxInput = FindMaxInputProbes
             /\ opp.result = IF probed.matched = {} THEN << >>
                             ELSE <<Largest(probed.matched)>>

\* C39: route-processor findOpp runs at most two dryruns, the first at the
\* sum of the take orders' maxOutput; a second one only after a first that
\* found a route with a price below the ratio of takeOrders[0] (and so never
\* simulated) and a findMaxInput that returned a size, and at that size; a
\* first dryrun that ended with NoRoute or in a simulation error is the
\* only one.
C39_SecondDryrunOnlyAfterPriceMismatch ==
    /\ Len(dryruns) <= 2
    /\ Len(dryruns) >= 1 =>
          /\ dryruns[1].call = 1
          /\ dryruns[1].size = InitAmount(orderPairObject)
    /\ (Len(dryruns) = 1 /\ opp.at \in {"findMaxInput", "threw"}) =>
          /\ dryruns[1].routed
          /\ dryruns[1].sims = << >>
          /\ dryruns[1].price < orderPairObject.ratios[1]
    /\ Len(dryruns) = 2 =>
          /\ dryruns[1].reason = "NoOpportunity"
          /\ dryruns[1].routed
          /\ dryruns[1].sims = << >>
          /\ dryruns[1].price < orderPairObject.ratios[1]
          /\ probed.findMaxInput = FindMaxInputProbes
          /\ opp.result # << >>
          /\ dryruns[2].call = 2
          /\ dryruns[2].size = opp.result[1]
    /\ (Len(dryruns) >= 1 /\ opp.at = "rejected"
        /\ (dryruns[1].reason = "NoRoute" \/ dryruns[1].sims # << >>)) =>
          /\ Len(dryruns) = 1
          /\ probed.findMaxInput = 0

\* a second dryrun has run, at a size below the first, and has failed in
\* its simulation
C39_Witness ==
    /\ Len(dryruns) = 2
    /\ dryruns[2].size < dryruns[1].size
    /\ dryruns[2].sims # << >>
    /\ opp.at = "rejected"

\* C40: a round in which a pair halted with NoWalletFund is over and has
\* rejected with "empty wallet", whatever reports were collected before it,
\* so a round that returns its report list has no NoWalletFund report.
C40_EmptyWalletRejectsWithoutReports ==
    /\ (\E k \in 1 .. Len(reports) : reports[k].reason = "NoWalletFund") =>
          /\ roundResult = "emptyWallet"
          /\ pc = "done"
          /\ reports[Len(reports)].reason = "NoWalletFund"
    /\ roundResult = "reports" =>
          \A k \in 1 .. Len(reports) : reports[k].reason # "NoWalletFund"

\* the round rejected with "empty wallet" after an earlier pair's
\* transaction was submitted and mined
C40_Witness ==
    /\ roundResult = "emptyWallet"
    /\ Len(reports) = 2
    /\ reports[1].status = "FoundOpportunity"
    /\ reports[1].reason = "none"
    /\ {"sent", "wait"} \subseteq touched[1]
    /\ reports[2].reason = "NoWalletFund"

====
